---- MODULE Spec2Model ----
(***************************************************************************)
(* Hybrid recommendation engine and its resilience layer                   *)
(* (ml_error_handler.py, ai_recommendation_engine.py, unified_app.py,      *)
(* ml_api.py, interaction_tracker.py).                                     *)
(*                                                                         *)
(* Times are whole seconds.  Scores are fixed point: a sub-model's raw     *)
(* score is counted in tenths, a combined score in hundredths, so that     *)
(* score * 0.4 is 4 * raw and score * 100 is the combined number itself.   *)
(***************************************************************************)
EXTENDS Integers, Sequences, FiniteSets, TLC

(* ---------------------------------------------------------------------- *)
(* Bounds of the model                                                     *)
(* ---------------------------------------------------------------------- *)
MaxThreshold == 5
MaxFailures == 7
MaxConsecutive == 7
MaxSecondOfDay == 93
MaxDay == 1
MaxPolicies == 3
MaxInteractions == 2
MaxErrors == 102
MaxTracked == 2

(* ---------------------------------------------------------------------- *)
(* Program constants                                                       *)
(* ---------------------------------------------------------------------- *)
DefaultFailureThreshold == 5
DefaultRecoveryTimeout == 60
SecondsPerDay == 86400
CollaborativeWeight == 4
ContentWeight == 3
HybridWeight == 3
RecommendationCap == 50
ErrorLogCap == 100
RecentErrorsAsked == 5
DegradedAbove == 3
ExplanationClauses == 2
MaxComponents == 50
MinSplitSamples == 2
HighConfidenceAbove == 80
GoodMatchAbove == 60
DefaultAge == 25

Min(a, b) == IF a <= b THEN a ELSE b
Max(a, b) == IF a >= b THEN a ELSE b

(* The callers of the circuit breaker; sequential use is caller 1 alone.   *)
Callers == {1, 2}
Jobs == {1, 2}

VARIABLES
    failure_threshold,  \* MLCircuitBreaker.failure_threshold
    recovery_timeout,   \* MLCircuitBreaker.recovery_timeout
    failure_count,      \* MLCircuitBreaker.failure_count
    last_failure_time,  \* MLCircuitBreaker.last_failure_time: << >> is None, <<t>> a time
    state,              \* MLCircuitBreaker.state
    now,                \* datetime.utcnow()
    pc,                 \* per caller: "idle", or "invoke" while the wrapped function runs
    outcome,            \* per caller: how the caller's latest call ended
    consecutive,        \* calls that raised since the last call that returned
    interactions,       \* UserInteraction table: a set of rows
    policy_features,    \* PolicyFeatures table: a set of rows
    user_item_matrix,   \* engine.user_item_matrix: << >> is None, <<m>> a matrix
    user_ids,           \* engine.user_ids: << >> while the attribute is unset
    policy_ids,         \* engine.policy_ids: << >> while the attribute is unset
    collaborative_model,    \* engine.collaborative_model: << >> is None
    hybrid_model,           \* engine.hybrid_model: << >> is None
    policy_features_matrix, \* engine.policy_features_matrix: << >> is None
    content_model,          \* engine.content_model: << >> is None
    scaler,                 \* engine.scaler: << >> not fitted, <<d>> fitted on rows d
    tfidf_vectorizer,       \* engine.tfidf_vectorizer: << >> not fitted, <<v>> its vocabulary
    ml_engine,          \* AIRecommendationEngine._ml_engine: << >> is None, <<e>> an engine
    response,           \* << >>, or <<r>>: what the latest call handed to its caller
    error_log,          \* MLErrorHandler.error_log: the entries, oldest first
    errors_logged,      \* how many times log_error has been called
    last_check,         \* MLHealthChecker.last_check: << >> is None, <<t>> a time
    health_status,      \* MLHealthChecker.health_status: << >> is {}, <<r>> a report
    ml_models,          \* MLModel table: a set of rows
    job                 \* per training job: "idle", or the model kind it trains next

breakerVars == <<failure_threshold, recovery_timeout, failure_count,
                 last_failure_time, state, now, pc, outcome, consecutive>>

engineVars == <<user_item_matrix, user_ids, policy_ids, collaborative_model,
               hybrid_model, policy_features_matrix, content_model, scaler,
               tfidf_vectorizer, ml_engine>>

storeVars == <<interactions, policy_features>>

(* The error handler and the health checker of ml_error_handler.           *)
serviceVars == <<error_log, errors_logged, last_check, health_status>>

(* The model table and the training requests in progress.                  *)
jobVars == <<ml_models, job>>

vars == <<breakerVars, storeVars, engineVars, response, serviceVars, jobVars>>

(* ---------------------------------------------------------------------- *)
(* MLCircuitBreaker                                                        *)
(* ---------------------------------------------------------------------- *)

(* timedelta.seconds: the seconds field of the normalised difference, the  *)
(* whole days being held in timedelta.days.                                *)
TimedeltaSeconds(later, earlier) == (later - earlier) % SecondsPerDay

ShouldAttemptReset_AtTimeout ==
    IF last_failure_time = << >>
    THEN TRUE
    ELSE TimedeltaSeconds(now, last_failure_time[1]) >= recovery_timeout

ShouldAttemptReset ==
    IF last_failure_time = << >>
    THEN TRUE
    ELSE TimedeltaSeconds(now, last_failure_time[1]) > recovery_timeout

OnSuccess_KeepCount ==
    /\ failure_count' = failure_count
    /\ state' = "closed"
    /\ UNCHANGED last_failure_time

OnSuccess ==
    /\ failure_count' = 0
    /\ state' = "closed"
    /\ UNCHANGED last_failure_time

OnFailure_Late ==
    /\ failure_count' = failure_count + 1
    /\ last_failure_time' = <<now>>
    /\ state' = IF failure_count + 1 > failure_threshold THEN "open" ELSE state

OnFailure ==
    /\ failure_count' = failure_count + 1
    /\ last_failure_time' = <<now>>
    /\ state' = IF failure_count + 1 >= failure_threshold THEN "open" ELSE state

(* MLCircuitBreaker.__init__ with the given threshold.                     *)
BreakerConstructed(threshold) ==
    /\ failure_threshold = threshold
    /\ recovery_timeout = DefaultRecoveryTimeout
    /\ failure_count = 0
    /\ last_failure_time = << >>
    /\ state = "closed"
    /\ now = 0
    /\ pc = [c \in Callers |-> "idle"]
    /\ outcome = [c \in Callers |-> "none"]
    /\ consecutive = 0

(* TrueAIRecommendationEngine.__init__ over an empty interaction store.    *)
EngineConstructed ==
    /\ interactions = {}
    /\ policy_features = {}
    /\ user_item_matrix = << >>
    /\ user_ids = << >>
    /\ policy_ids = << >>
    /\ collaborative_model = << >>
    /\ hybrid_model = << >>
    /\ policy_features_matrix = << >>
    /\ content_model = << >>
    /\ scaler = << >>
    /\ tfidf_vectorizer = << >>
    /\ ml_engine = << >>
    /\ response = << >>

(* MLErrorHandler.__init__ and MLHealthChecker.__init__, over a model      *)
(* table with no rows and with no training job running.                    *)
ServiceConstructed ==
    /\ error_log = << >>
    /\ errors_logged = 0
    /\ last_check = << >>
    /\ health_status = << >>
    /\ ml_models = {}
    /\ job = [j \in Jobs |-> "idle"]

BreakerInit ==
    /\ \E threshold \in 1..MaxThreshold : BreakerConstructed(threshold)
    /\ EngineConstructed
    /\ ServiceConstructed

(* call(), lines 277-281: the admission test.  An open breaker whose       *)
(* timeout has not run out raises MLError without reaching the function.   *)
CallBegin(c) ==
    /\ pc[c] = "idle"
    /\ IF state = "open" /\ ~ShouldAttemptReset
       THEN /\ outcome' = [outcome EXCEPT ![c] = "disabled"]
            /\ consecutive' = Min(consecutive + 1, MaxConsecutive)
            /\ UNCHANGED <<state, pc>>
       ELSE /\ state' = IF state = "open" THEN "half-open" ELSE state
            /\ pc' = [pc EXCEPT ![c] = "invoke"]
            /\ outcome' = [outcome EXCEPT ![c] = "pending"]
            /\ UNCHANGED consecutive
    /\ UNCHANGED <<failure_threshold, recovery_timeout, failure_count,
                   last_failure_time, now>>
    /\ UNCHANGED <<storeVars, engineVars, response, serviceVars, jobVars>>

(* call(), lines 283-289: the wrapped function returns or raises.          *)
CallReturn(c) ==
    /\ pc[c] = "invoke"
    /\ \E ok \in BOOLEAN :
         IF ok
         THEN /\ OnSuccess
              /\ outcome' = [outcome EXCEPT ![c] = "returned"]
              /\ consecutive' = 0
         ELSE /\ failure_count < MaxFailures
              /\ OnFailure
              /\ outcome' = [outcome EXCEPT ![c] = "raised"]
              /\ consecutive' = Min(consecutive + 1, MaxConsecutive)
    /\ pc' = [pc EXCEPT ![c] = "idle"]
    /\ UNCHANGED <<failure_threshold, recovery_timeout, now>>
    /\ UNCHANGED <<storeVars, engineVars, response, serviceVars, jobVars>>

(* The clock moves by 30 or 31 seconds or by a day between two             *)
(* observations of it.                                                     *)
Tick ==
    /\ \E d \in {30, 31, SecondsPerDay} :
         /\ (now + d) % SecondsPerDay <= MaxSecondOfDay
         /\ (now + d) \div SecondsPerDay <= MaxDay
         /\ now' = now + d
    /\ UNCHANGED <<failure_threshold, recovery_timeout, failure_count,
                   last_failure_time, state, pc, outcome, consecutive>>
    /\ UNCHANGED <<storeVars, engineVars, response, serviceVars, jobVars>>

(* One caller at a time: the breaker as the synchronous request path uses it. *)
BreakerNext ==
    \/ CallBegin(1)
    \/ CallReturn(1)
    \/ Tick

SpecBreaker == BreakerInit /\ [][BreakerNext]_vars

(* Two request threads on the one module-level breaker: call() takes no    *)
(* lock, so the admission test of one thread may run between the admission *)
(* and the outcome of the other.                                           *)
ConcurrentNext ==
    \/ CallBegin(1)
    \/ CallBegin(2)
    \/ CallReturn(1)
    \/ CallReturn(2)
    \/ Tick

SpecConcurrent == BreakerInit /\ [][ConcurrentNext]_vars

(* ---------------------------------------------------------------------- *)
(* The collaborators' data: users, the policy catalog, interaction rows    *)
(* ---------------------------------------------------------------------- *)

(* User rows: 1 and 2 have complete profiles, 3 has no age; 2 is an admin. *)
Users == {1, 2, 3}
(* An id with no User row.                                                 *)
GhostUser == 4
UserAge(u) == CASE u = 1 -> 30 [] u = 2 -> 70 [] OTHER -> 0
UserOccupation(u) == CASE u = 1 -> "office" [] u = 2 -> "construction" [] OTHER -> ""
UserMaritalStatus(u) == CASE u = 1 -> "married" [] u = 2 -> "single" [] OTHER -> ""
UserIsAdmin(u) == u = 2
UserLifestyle(u) == CASE u = 1 -> "active" [] OTHER -> ""

(* Policy rows, ids 1..MaxPolicies, returned by Policy.query.all() in id   *)
(* order.                                                                  *)
PolicyIds == 1..MaxPolicies
PolicyType(p) == CASE p = 1 -> "health" [] p = 2 -> "life" [] p = 3 -> "auto" [] OTHER -> "health"
PolicyMinAge(p) == CASE p = 3 -> 25 [] OTHER -> 18
PolicyMaxAge(p) == CASE p = 1 -> 65 [] p = 2 -> 60 [] p = 3 -> 70 [] OTHER -> 80
PolicyPremium(p) == CASE p = 1 -> 100 [] p = 2 -> 90 [] p = 3 -> 300 [] OTHER -> 100

(* The words of "{name} {coverage} {type} {risk_level}" and the vector the *)
(* vectorizer gives a policy: one coordinate per word of the vocabulary.   *)
Terms == {"health", "life", "auto", "basic"}
PolicyTerms(p) ==
    CASE p = 1 -> {"health", "basic"}
      [] p = 2 -> {"life"}
      [] p = 3 -> {"auto", "basic"}
      [] OTHER -> {"health"}
FeatureVector(p) == [t \in Terms |-> IF t \in PolicyTerms(p) THEN 1 ELSE 0]

(* What the fitted models may answer, in tenths: the value the SVD         *)
(* reconstructs for a matrix column, and the regressor's prediction.       *)
CollaborativeScores == {0, 30}
HybridScores == {0, 5}
(* The limits a caller may pass.                                           *)
Limits == {-1, 0, 1, 60}
(* The rows the interaction store may hold: views of value 1.0.            *)
EventUniverse ==
    { [user_id |-> e[1], policy_id |-> e[2], interaction_type |-> "view",
       interaction_value |-> 10] : e \in {<<1, 1>>, <<2, 2>>, <<2, 3>>} }
(* The operations of a request that may throw while it runs: the SVD       *)
(* transform, the regressor's predict, and the storage calls.  A request   *)
(* runs with none of them failing or with one of them failing.             *)
FaultSetsOf(relevant) == {{}} \cup {{f} : f \in relevant}
FaultSets == FaultSetsOf({"transform", "predict", "interaction_query", "policy_all",
                          "policy_get", "user_get", "commit"})

(* ---------------------------------------------------------------------- *)
(* Python list and number helpers                                          *)
(* ---------------------------------------------------------------------- *)

(* s[:n], negative n counting from the end.                                *)
Slice(s, n) ==
    LET k == IF n >= 0 THEN Min(n, Len(s)) ELSE Max(0, Len(s) + n)
    IN  SubSeq(s, 1, k)

(* list.sort(key=score, reverse=True) and sorted(..., reverse=True): a     *)
(* stable sort, equal scores keep the order they came in.                  *)
RECURSIVE InsertDesc(_, _)
InsertDesc(sorted, x) ==
    IF sorted = << >> THEN <<x>>
    ELSE IF Head(sorted).score >= x.score
         THEN <<Head(sorted)>> \o InsertDesc(Tail(sorted), x)
         ELSE <<x>> \o sorted

RECURSIVE SortDesc(_)
SortDesc(s) ==
    IF s = << >> THEN << >>
    ELSE InsertDesc(SortDesc(SubSeq(s, 1, Len(s) - 1)), s[Len(s)])

(* The members of a set of integers in ascending order.                    *)
RECURSIVE SortedSeq(_)
SortedSeq(S) ==
    IF S = {} THEN << >>
    ELSE LET m == CHOOSE x \in S : \A y \in S : x <= y
         IN  <<m>> \o SortedSeq(S \ {m})

RECURSIVE SumOver(_, _)
SumOver(S, f) ==
    IF S = {} THEN 0
    ELSE LET x == CHOOSE y \in S : TRUE
         IN  f[x] + SumOver(S \ {x}, f)

(* Keep the elements of a sequence that satisfy keep[i].                   *)
RECURSIVE Filter(_, _)
Filter(s, keep) ==
    IF s = << >> THEN << >>
    ELSE LET rest == Filter(SubSeq(s, 1, Len(s) - 1), keep)
         IN  IF keep[Len(s)] THEN Append(rest, s[Len(s)]) ELSE rest

Dot(a, b) == SumOver(Terms, [t \in Terms |-> a[t] * b[t]])

(* cosine_similarity in tenths, rounded toward zero but never to zero: a   *)
(* zero vector has similarity 0 with everything.                           *)
Cosine(a, b) ==
    LET d == Dot(a, b)
        n == Dot(a, a) * Dot(b, b)
        k == CHOOSE j \in 0..10 :
                 /\ j * j * n <= 100 * d * d
                 /\ (j < 10 => (j + 1) * (j + 1) * n > 100 * d * d)
    IN  IF n = 0 \/ d = 0 THEN 0
        ELSE IF d > 0 THEN Max(1, k) ELSE 0 - Max(1, k)

(* ---------------------------------------------------------------------- *)
(* Feature builders                                                        *)
(* ---------------------------------------------------------------------- *)

(* The weights with every type weighted 1.0.                               *)
InteractionWeight_Unit(type) == 1

(* collect_training_data: the weight of an interaction type.               *)
InteractionWeight(type) ==
    CASE type = "view" -> 1
      [] type = "click" -> 2
      [] type = "add_to_cart" -> 3
      [] type = "purchase" -> 5
      [] type = "rate" -> 4
      [] type = "dismiss" -> -1
      [] OTHER -> 1

WeightedScore(row) == row.interaction_value * InteractionWeight(row.interaction_type)

(* build_user_item_matrix: the pivot of the rows, ids in ascending order.  *)
MatrixUserIds(rows) == SortedSeq({r.user_id : r \in rows})
MatrixPolicyIds(rows) == SortedSeq({r.policy_id : r \in rows})
MatrixCell(rows, u, p) ==
    LET cell == {r \in rows : r.user_id = u /\ r.policy_id = p}
    IN  SumOver(cell, [r \in cell |-> WeightedScore(r)])
BuildUserItemMatrix(rows) ==
    LET us == MatrixUserIds(rows)
        ps == MatrixPolicyIds(rows)
    IN  [i \in 1..Len(us) |-> [j \in 1..Len(ps) |-> MatrixCell(rows, us[i], ps[j])]]

(* extract_policy_features: one matrix row per policy, in query order.     *)
CatalogSeq == SortedSeq(PolicyIds)

(* ---------------------------------------------------------------------- *)
(* Results of calls: a value, or an exception that left the function       *)
(* ---------------------------------------------------------------------- *)
Raised == [raised |-> TRUE, value |-> << >>]
Return(v) == [raised |-> FALSE, value |-> v]
(* try: ... except Exception: return fallback                              *)
Catch(r, fallback) == IF r.raised THEN Return(fallback) ELSE r

(* ---------------------------------------------------------------------- *)
(* Engine objects                                                          *)
(* ---------------------------------------------------------------------- *)

(* An estimator object that was constructed and never fitted: a fitted one *)
(* is the non-empty table of what it predicts.                             *)
UnfittedModel == << >>

(* The fields of a TrueAIRecommendationEngine as __init__ leaves them.     *)
NewEngine ==
    [user_item_matrix |-> << >>, user_ids |-> << >>, policy_ids |-> << >>,
     collaborative_model |-> << >>, hybrid_model |-> << >>,
     policy_features_matrix |-> << >>, content_model |-> << >>,
     scaler |-> << >>, tfidf_vectorizer |-> << >>]

(* ml_routes.ai_engine, the engine object the training route trains.       *)
ai_engine ==
    [user_item_matrix |-> user_item_matrix, user_ids |-> user_ids,
     policy_ids |-> policy_ids, collaborative_model |-> collaborative_model,
     hybrid_model |-> hybrid_model,
     policy_features_matrix |-> policy_features_matrix,
     content_model |-> content_model, scaler |-> scaler,
     tfidf_vectorizer |-> tfidf_vectorizer]

(* AIRecommendationEngine.get_ml_engine: the engine object of unified_app, *)
(* created on first use.  No code trains this object.                      *)
GetMLEngine == IF ml_engine = << >> THEN NewEngine ELSE ml_engine[1]

(* ---------------------------------------------------------------------- *)
(* The three sub-models                                                    *)
(* ---------------------------------------------------------------------- *)

RowsOf(user_id) == {r \in interactions : r.user_id = user_id}
(* The filter with nothing to exclude.                                     *)
InteractedPolicies_None(user_id) == {}

(* interacted_policies (lines 441 and 475-478): the policies of the user's *)
(* stored interactions.                                                    *)
InteractedPolicies(user_id) == {r.policy_id : r \in RowsOf(user_id)}

(* get_collaborative_recommendations.  The fitted model is a table: the    *)
(* reconstructed preference of each matrix column.                         *)
GetCollaborativeRecommendations(e, user_id, n, faults) ==
    IF e.collaborative_model = << >> \/ e.user_item_matrix = << >> THEN << >>
    ELSE IF \A i \in 1..Len(e.user_ids[1]) : e.user_ids[1][i] # user_id THEN << >>
    ELSE IF "transform" \in faults \/ e.collaborative_model[1] = UnfittedModel THEN << >>
    ELSE LET ps == e.policy_ids[1]
             user_index == CHOOSE i \in 1..Len(e.user_ids[1]) : e.user_ids[1][i] = user_id
             row == e.user_item_matrix[1][user_index]
             all == [j \in 1..Len(ps) |->
                        [policy_id |-> ps[j], score |-> e.collaborative_model[1][j]]]
             keep == [j \in 1..Len(ps) |-> ~(row[j] > 0) /\ all[j].score > 0]
         IN  Slice(SortDesc(Filter(all, keep)), n)

(* get_content_based_recommendations runs extract_policy_features first    *)
(* when the engine holds no feature matrix.                                *)
ExtractionRuns(e) == e.policy_features_matrix = << >>
ExtractionSucceeds(faults) ==
    "policy_all" \notin faults /\ "commit" \notin faults /\ PolicyIds # {}
MatrixAfterExtraction(e, faults) ==
    IF ExtractionRuns(e) /\ ExtractionSucceeds(faults)
    THEN <<CatalogSeq>> ELSE e.policy_features_matrix
(* fit_transform (line 152) runs before the rows are committed.            *)
Vocabulary == UNION {PolicyTerms(p) : p \in PolicyIds}
(* get_feature_names_out: the vocabulary in alphabetical order.            *)
FeatureNames ==
    SelectSeq(<<"auto", "basic", "health", "life">>, LAMBDA t : t \in Vocabulary)
(* json.dumps(feature_vector.tolist()): the coordinates of a matrix row as *)
(* a list, in the order of the feature names.                              *)
DumpVector(p) ==
    [i \in 1..Len(FeatureNames) |-> FeatureVector(p)[FeatureNames[i]]]
(* np.array(json.loads(feature_vector)): the coordinate of each word.      *)
LoadVector(list) ==
    [t \in Terms |->
        IF \E i \in 1..Len(list) : i <= Len(FeatureNames) /\ FeatureNames[i] = t
        THEN list[CHOOSE i \in 1..Len(list) : FeatureNames[i] = t]
        ELSE 0]

(* The 'tfidf' rows of a policy, and the one .first() returns.             *)
FeatureRows(table, p) ==
    {r \in table : r.policy_id = p /\ r.algorithm_used = "tfidf"}
FirstFeatureRow(table, p) ==
    CHOOSE r \in FeatureRows(table, p) : \A q \in FeatureRows(table, p) : r.id <= q.id

(* Lines 155-177 with every policy given a new row.                        *)
StoreFeatures_Add(table, p) ==
    table \cup {[id |-> Cardinality(table) + 1, policy_id |-> p,
                 algorithm_used |-> "tfidf", feature_vector |-> DumpVector(p)]}

(* Lines 155-177 for one policy: its row is rewritten, or one is added.    *)
StoreFeatures(table, p) ==
    IF FeatureRows(table, p) # {}
    THEN (table \ {FirstFeatureRow(table, p)}) \cup
         {[FirstFeatureRow(table, p) EXCEPT !.feature_vector = DumpVector(p)]}
    ELSE table \cup {[id |-> Cardinality(table) + 1, policy_id |-> p,
                      algorithm_used |-> "tfidf", feature_vector |-> DumpVector(p)]}

(* The loop of lines 155-177 over the policies, in query order.            *)
RECURSIVE StoreAllFeatures(_, _)
StoreAllFeatures(table, ps) ==
    IF ps = << >> THEN table
    ELSE StoreAllFeatures(StoreFeatures(table, Head(ps)), Tail(ps))

FeaturesAfterExtraction(e, faults) ==
    IF ExtractionRuns(e) /\ ExtractionSucceeds(faults)
    THEN StoreAllFeatures(policy_features, CatalogSeq) ELSE policy_features
VectorizerAfterExtraction(e, faults) ==
    IF ExtractionRuns(e) /\ "policy_all" \notin faults /\ PolicyIds # {}
    THEN <<Vocabulary>> ELSE e.tfidf_vectorizer

(* The user profile: the interaction-valued sum of the stored vectors of   *)
(* the policies the user interacted with.  Dividing it by a positive total *)
(* weight scales it and leaves every cosine as it is.                      *)
UserProfile(user_id, features) ==
    LET stored == [p \in {r.policy_id : r \in {x \in features :
                                                  x.algorithm_used = "tfidf"}} |->
                      LoadVector(FirstFeatureRow(features, p).feature_vector)]
        mine == {r \in RowsOf(user_id) : r.policy_id \in DOMAIN stored}
    IN  [t \in Terms |->
            SumOver(mine, [r \in mine |-> stored[r.policy_id][t] * r.interaction_value])]

(* The policy id the loop pairs with matrix row i (i counted from 1).      *)
ContentPolicyId(e, i) ==
    IF i <= Len(e.policy_ids[1]) THEN e.policy_ids[1][i] ELSE i

(* len(self.policy_ids) throws while the attribute is None.                *)
GetContentBasedRecommendations(e, user_id, n, faults) ==
    IF ExtractionRuns(e) /\ ~ExtractionSucceeds(faults) THEN << >>
    ELSE IF "interaction_query" \in faults THEN << >>
    ELSE IF RowsOf(user_id) = {} THEN << >>
    ELSE IF e.policy_ids = << >> THEN << >>
    ELSE LET rows == MatrixAfterExtraction(e, faults)[1]
             profile == UserProfile(user_id, FeaturesAfterExtraction(e, faults))
             all == [i \in 1..Len(rows) |->
                        [policy_id |-> ContentPolicyId(e, i),
                         score |-> Cosine(profile, FeatureVector(rows[i]))]]
             keep == [i \in 1..Len(rows) |->
                         /\ all[i].policy_id \notin InteractedPolicies(user_id)
                         /\ all[i].score > 0]
         IN  Slice(SortDesc(Filter(all, keep)), n)

(* get_hybrid_recommendations.  The fitted regressor is a table: the score *)
(* it predicts for each policy.                                            *)
GetHybridRecommendations(e, user_id, n, faults) ==
    IF e.hybrid_model = << >> THEN << >>
    ELSE IF "user_get" \in faults \/ user_id \notin Users THEN << >>
    ELSE IF "policy_all" \in faults \/ "interaction_query" \in faults THEN << >>
    ELSE IF e.hybrid_model[1] = UnfittedModel
         THEN << >>
    ELSE LET all == [j \in 1..Len(CatalogSeq) |->
                        [policy_id |-> CatalogSeq[j],
                         score |-> e.hybrid_model[1][CatalogSeq[j]]]]
             candidates == [j \in 1..Len(CatalogSeq) |->
                               all[j].policy_id \notin InteractedPolicies(user_id)]
             keep == [j \in 1..Len(CatalogSeq) |-> candidates[j] /\ all[j].score > 0]
         IN  IF "predict" \in faults /\ \E j \in 1..Len(CatalogSeq) : candidates[j]
             THEN << >>
             ELSE Slice(SortDesc(Filter(all, keep)), n)

(* ---------------------------------------------------------------------- *)
(* The blender                                                             *)
(* ---------------------------------------------------------------------- *)

(* combined_scores[policy_id] = combined_scores.get(policy_id, 0) + score  *)
(* * weight, over one sub-model list; the dict keeps insertion order.      *)
RECURSIVE AddScores(_, _, _)
AddScores(combined, recs, weight) ==
    IF recs = << >> THEN combined
    ELSE LET r == Head(recs)
             known == \E i \in 1..Len(combined) : combined[i].policy_id = r.policy_id
             next == IF known
                     THEN [i \in 1..Len(combined) |->
                             IF combined[i].policy_id = r.policy_id
                             THEN [combined[i] EXCEPT !.score = @ + r.score * weight]
                             ELSE combined[i]]
                     ELSE Append(combined, [policy_id |-> r.policy_id,
                                            score |-> r.score * weight])
         IN  AddScores(next, Tail(recs), weight)

CombinedScores(collaborative_recs, content_recs, hybrid_recs) ==
    AddScores(AddScores(AddScores(<< >>, collaborative_recs, CollaborativeWeight),
                        content_recs, ContentWeight),
              hybrid_recs, HybridWeight)

SortedRecommendations(combined, n) == Slice(SortDesc(combined), n)

(* The conversion to a percentage without its upper clamp.                 *)
DisplayScore_NoCeiling(score) == Max(0, score)

(* min(100, max(0, score * 100))                                           *)
DisplayScore(score) == Min(100, Max(0, score))

(* The recommendation objects of lines 533-552, for the policies found.    *)
RecommendationObjects(sorted) ==
    LET found == [i \in 1..Len(sorted) |-> sorted[i].policy_id \in PolicyIds]
        objects == [i \in 1..Len(sorted) |->
                       [policy |-> sorted[i].policy_id,
                        score |-> DisplayScore(sorted[i].score),
                        algorithm |-> "AI_ML_Hybrid",
                        confidence |-> Min(100, sorted[i].score)]]
    IN  Filter(objects, found)

(* The three sub-model calls of get_ai_recommendations (lines 509-511);    *)
(* each catches what it throws.                                            *)
SubModelLists(e, user_id, n, faults) ==
    [collaborative |-> GetCollaborativeRecommendations(e, user_id, n, faults),
     content |-> GetContentBasedRecommendations(e, user_id, n, faults),
     hybrid |-> GetHybridRecommendations(e, user_id, n, faults)]

(* The rest of get_ai_recommendations' try block.  Policy.query.get is     *)
(* called once per ranked policy; the explanation and the log entry catch  *)
(* what they throw.                                                        *)
AIRecommendationsBody(lists, n, faults) ==
    LET sorted == SortedRecommendations(
                      CombinedScores(lists.collaborative, lists.content, lists.hybrid), n)
    IN  IF "policy_get" \in faults /\ sorted # << >>
        THEN Raised
        ELSE Return(RecommendationObjects(sorted))

(* _log_recommendation once per policy found: the row it adds, unless add *)
(* or commit fails.                                                        *)
RECURSIVE LogRows(_, _, _)
LogRows(user_id, sorted, faults) ==
    IF sorted = << >> THEN << >>
    ELSE (IF Head(sorted).policy_id \in PolicyIds /\ "commit" \notin faults
          THEN << [user_id |-> user_id, policy_id |-> Head(sorted).policy_id,
                   recommendation_score |-> Head(sorted).score,
                   algorithm_used |-> "AI_ML_Hybrid"] >>
          ELSE << >>)
         \o LogRows(user_id, Tail(sorted), faults)

(* The RecommendationLog rows one call of get_ai_recommendations commits   *)
(* (line 550, once per policy found).                                      *)
RecommendationsLogged(user_id, lists, n, faults) ==
    LET sorted == SortedRecommendations(
                      CombinedScores(lists.collaborative, lists.content, lists.hybrid), n)
    IN  IF "policy_get" \in faults THEN << >> ELSE LogRows(user_id, sorted, faults)

(* get_ai_recommendations without its except clause.                       *)
BlendRecommendations_NoCatch(lists, n, faults) ==
    AIRecommendationsBody(lists, n, faults)

(* get_ai_recommendations once the sub-models have answered: the try block *)
(* and its except clause.                                                  *)
BlendRecommendations(lists, n, faults) ==
    Catch(AIRecommendationsBody(lists, n, faults), << >>)

(* ---------------------------------------------------------------------- *)
(* Rule-based lists                                                        *)
(* ---------------------------------------------------------------------- *)

AgeInRange(age, p) == PolicyMinAge(p) <= age /\ age <= PolicyMaxAge(p)

(* AIRecommendationEngine.generate_recommendations, lines 316-335: not in  *)
(* a try block, so a failing Policy.query.all() leaves the function.       *)
EmergencyFallback(user, limit, faults) ==
    IF "policy_all" \in faults THEN Raised
    ELSE LET policies == Slice(CatalogSeq, limit)
             age == IF UserAge(user) # 0 THEN UserAge(user) ELSE 25
         IN  Return([j \in 1..Len(policies) |->
                        [policy |-> policies[j],
                         score |-> 50 + (IF AgeInRange(age, policies[j]) THEN 20 ELSE 0),
                         algorithm |-> "Emergency_Fallback",
                         confidence |-> 50]])

(* AIRecommendationEngine.generate_recommendations: the breaker is not     *)
(* consulted; an empty ML list falls through to the emergency list.        *)
GenerateRecommendations(user, limit, faults) ==
    IF user \notin Users \/ UserAge(user) = 0 THEN Return(<< >>)
    ELSE LET ml == Catch(BlendRecommendations(SubModelLists(GetMLEngine, user, limit, faults),
                                             limit, faults), << >>)
         IN  IF ml.value # << >> THEN ml
             ELSE EmergencyFallback(user, limit, faults)

(* MLFallbackSystem.get_fallback_recommendations: the scoring rules.       *)
FallbackScore(user, p) ==
    50
    + (IF UserAge(user) # 0 /\ AgeInRange(UserAge(user), p) THEN 20 ELSE 0)
    + (IF UserOccupation(user) \in {"construction", "manual"} /\ PolicyType(p) = "health"
       THEN 15
       ELSE IF UserOccupation(user) \in {"office", "professional"}
               /\ PolicyType(p) \in {"life", "health"}
            THEN 10 ELSE 0)
    + (IF UserMaritalStatus(user) = "married" /\ PolicyType(p) = "life" THEN 10 ELSE 0)

GetFallbackRecommendations(user, limit, faults) ==
    IF "policy_all" \in faults THEN Return(<< >>)
    ELSE LET policies == Slice(CatalogSeq, limit)
             items == [j \in 1..Len(policies) |->
                          [policy |-> policies[j],
                           score |-> Min(FallbackScore(user, policies[j]), 100),
                           algorithm |-> "Fallback_System",
                           confidence |-> 30]]
         IN  Return(Slice(SortDesc(items), limit))

(* ---------------------------------------------------------------------- *)
(* get_similar_policies                                                    *)
(* ---------------------------------------------------------------------- *)

(* similarity_score as the fraction SimilarityNumerator / Denominator of   *)
(* one thousandth: 0.5 for the type, 0.3 * premium similarity, 0.2 * age   *)
(* similarity.                                                             *)
PremiumDenominator(target, p) ==
    LET max_premium == Max(PolicyPremium(p), PolicyPremium(target))
    IN  IF max_premium > 0 THEN max_premium ELSE 1

AgeDenominator(target, p) ==
    LET target_age_range == PolicyMaxAge(target) - PolicyMinAge(target)
        policy_age_range == PolicyMaxAge(p) - PolicyMinAge(p)
    IN  IF target_age_range > 0 /\ policy_age_range > 0
        THEN Max(target_age_range, policy_age_range) ELSE 1

SimilarityDenominator(target, p) == PremiumDenominator(target, p) * AgeDenominator(target, p)

SimilarityNumerator(target, p) ==
    LET premium_diff == IF PolicyPremium(p) >= PolicyPremium(target)
                        THEN PolicyPremium(p) - PolicyPremium(target)
                        ELSE PolicyPremium(target) - PolicyPremium(p)
        max_premium == Max(PolicyPremium(p), PolicyPremium(target))
        target_age_range == PolicyMaxAge(target) - PolicyMinAge(target)
        policy_age_range == PolicyMaxAge(p) - PolicyMinAge(p)
        age_overlap == Max(0, Min(PolicyMaxAge(target), PolicyMaxAge(p))
                               - Max(PolicyMinAge(target), PolicyMinAge(p)))
    IN  (IF PolicyType(p) = PolicyType(target) THEN 500 ELSE 0)
            * SimilarityDenominator(target, p)
        + (IF max_premium > 0
           THEN 300 * (max_premium - premium_diff) * AgeDenominator(target, p) ELSE 0)
        + (IF target_age_range > 0 /\ policy_age_range > 0
           THEN 200 * age_overlap * PremiumDenominator(target, p) ELSE 0)

(* get_similar_policies: its try block, and the empty list of its except   *)
(* clause; scores are kept rounded down to thousandths, the 0.3 threshold  *)
(* is compared exactly.                                                    *)
GetSimilarPolicies(policy_id, limit, faults) ==
    Catch(IF "policy_get" \in faults THEN Raised
          ELSE IF policy_id \notin PolicyIds THEN Return(<< >>)
          ELSE IF "policy_all" \in faults THEN Raised
          ELSE LET others == SortedSeq(PolicyIds \ {policy_id})
                   all == [j \in 1..Len(others) |->
                              [policy |-> others[j],
                               score |-> SimilarityNumerator(policy_id, others[j])
                                           \div SimilarityDenominator(policy_id, others[j]),
                               algorithm |-> "similarity",
                               confidence |-> 0]]
                   keep == [j \in 1..Len(others) |->
                               SimilarityNumerator(policy_id, others[j])
                                 > 300 * SimilarityDenominator(policy_id, others[j])]
               IN  Return(Slice(SortDesc(Filter(all, keep)), limit)),
          << >>)

(* ---------------------------------------------------------------------- *)
(* The recommendations endpoint of ml_api                                  *)
(* ---------------------------------------------------------------------- *)

(* The attributes of class InteractionTracker.  track_api_usage and        *)
(* track_feedback are written after the return statement of the module     *)
(* level function track_interaction, so the class does not have them.      *)
(* InteractionTracker.<name>(...): AttributeError for a missing attribute; *)
(* the methods themselves catch what they throw.                           *)
CallTracker(name) ==
    IF name \in {"track_page_view", "track_click", "track_purchase",
                 "track_rating", "track_dismissal",
                 "track_recommendation_click", "track_recommendation_purchase",
                 "track_search_interaction", "_get_session_id",
                 "get_user_interaction_summary"}
    THEN Return(<< >>) ELSE Raised

(* The access check of get_user_recommendations.                           *)
Authorized(current_user, user_id) == current_user = user_id \/ UserIsAdmin(current_user)

(* The try block of get_user_recommendations after the access check:       *)
(* get_or_404 throws for a missing row.                                    *)
UserRecommendationsBody(user_id, limit, faults) ==
    IF "user_get" \in faults \/ user_id \notin Users THEN Raised
    ELSE LET generated == GenerateRecommendations(user_id, limit, faults)
         IN  IF generated.raised THEN Raised
             ELSE IF CallTracker("track_api_usage").raised THEN Raised
             ELSE generated

(* get_user_recommendations: status, code and the list of the body.        *)
GetUserRecommendations(current_user, user_id, limit, faults) ==
    IF ~Authorized(current_user, user_id)
    THEN [status |-> "error", code |-> 403, recommendations |-> << >>]
    ELSE LET body == UserRecommendationsBody(user_id, Min(limit, RecommendationCap), faults)
         IN  IF body.raised
             THEN [status |-> "error", code |-> 500, recommendations |-> << >>]
             ELSE [status |-> "success", code |-> 200, recommendations |-> body.value]

(* ---------------------------------------------------------------------- *)
(* Requests                                                                *)
(* ---------------------------------------------------------------------- *)

NoLists == [collaborative |-> << >>, content |-> << >>, hybrid |-> << >>,
            combined |-> << >>]

(* What a finished call leaves for its caller, with the inputs it had and  *)
(* the state the breaker was in.                                           *)
Response(op, user, limit, faults, result, code, generated, lists) ==
    [op |-> op, user |-> user, limit |-> limit, faults |-> faults, breaker |-> state,
     raised |-> result.raised, recs |-> result.value, code |-> code,
     generated |-> generated, lists |-> lists]

(* ai_engine.get_ai_recommendations(user_id, n): the route of ml_routes.   *)
GetAIRecommendationsCall ==
    /\ response = << >>
    /\ \E user_id \in Users \cup {GhostUser}, n \in Limits, faults \in FaultSets :
       \E lists \in {SubModelLists(ai_engine, user_id, n, faults)} :
             /\ response' = << Response("ai", user_id, n, faults,
                                  BlendRecommendations(lists, n, faults),
                                  0, << >>,
                                  lists @@
                                  [combined |-> CombinedScores(lists.collaborative,
                                                               lists.content,
                                                               lists.hybrid)])
                                @@ [logged |-> RecommendationsLogged(user_id, lists,
                                                                     n, faults)] >>
             /\ policy_features_matrix' = MatrixAfterExtraction(ai_engine, faults)
             /\ tfidf_vectorizer' = VectorizerAfterExtraction(ai_engine, faults)
             /\ policy_features' = FeaturesAfterExtraction(ai_engine, faults)
    /\ UNCHANGED <<interactions, user_item_matrix, user_ids, policy_ids,
                   collaborative_model, hybrid_model, content_model, scaler,
                   ml_engine>>
    /\ UNCHANGED <<breakerVars, serviceVars, jobVars>>

(* What generate_recommendations leaves behind: the engine of unified_app  *)
(* exists, and its content-based step has extracted the features.          *)
GenerateEffect(user, faults) ==
    /\ IF user \in Users /\ UserAge(user) # 0
       THEN /\ ml_engine' = << [GetMLEngine EXCEPT
                                    !.policy_features_matrix =
                                        MatrixAfterExtraction(GetMLEngine, faults),
                                    !.tfidf_vectorizer =
                                        VectorizerAfterExtraction(GetMLEngine, faults)] >>
            /\ policy_features' = FeaturesAfterExtraction(GetMLEngine, faults)
       ELSE UNCHANGED <<ml_engine, policy_features>>
    /\ UNCHANGED <<interactions, user_item_matrix, user_ids, policy_ids,
                   collaborative_model, hybrid_model, policy_features_matrix,
                   content_model, scaler, tfidf_vectorizer>>

(* AIRecommendationEngine.generate_recommendations(user, limit) called by  *)
(* a page of unified_app.                                                  *)
GenerateRecommendationsCall ==
    /\ response = << >>
    /\ \E user \in Users, limit \in Limits, faults \in FaultSets :
         /\ response' = << Response("generate", user, limit, faults,
                              GenerateRecommendations(user, limit, faults),
                              0, << >>, NoLists) >>
         /\ GenerateEffect(user, faults)
    /\ UNCHANGED <<breakerVars, serviceVars, jobVars>>

(* GET /api/ml/recommendations/<user_id>?limit=<limit>: generated is the   *)
(* list generate_recommendations returned inside the handler.              *)
GetUserRecommendationsCall ==
    /\ response = << >>
    /\ \E current_user \in Users, user_id \in Users \cup {GhostUser}, limit \in Limits :
         IF ~Authorized(current_user, user_id)
         THEN /\ response' = << Response("endpoint", user_id, limit, {}, Return(<< >>),
                                   403, << >>, NoLists) >>
              /\ UNCHANGED <<storeVars, engineVars>>
         ELSE \E faults \in FaultSets :
                LET r == GetUserRecommendations(current_user, user_id, limit, faults)
                    reaches == user_id \in Users /\ "user_get" \notin faults
                    generated == IF reaches
                                 THEN GenerateRecommendations(
                                          user_id, Min(limit, RecommendationCap), faults)
                                 ELSE Raised
                IN  /\ response' = << Response("endpoint", user_id, limit, faults,
                                         Return(r.recommendations), r.code,
                                         generated.value, NoLists) >>
                    /\ IF reaches
                       THEN GenerateEffect(user_id, faults)
                       ELSE UNCHANGED <<storeVars, engineVars>>
    /\ UNCHANGED <<breakerVars, serviceVars, jobVars>>

(* MLFallbackSystem.get_fallback_recommendations(user, limit)              *)
GetFallbackRecommendationsCall ==
    /\ response = << >>
    /\ \E user \in Users, limit \in Limits, faults \in FaultSetsOf({"policy_all"}) :
         response' = << Response("fallback", user, limit, faults,
                           GetFallbackRecommendations(user, limit, faults),
                           0, << >>, NoLists) >>
    /\ UNCHANGED <<breakerVars, storeVars, engineVars, serviceVars, jobVars>>

(* get_similar_policies(policy_id, limit) on an engine object.             *)
GetSimilarPoliciesCall ==
    /\ response = << >>
    /\ \E policy_id \in 1..(MaxPolicies + 1), limit \in Limits,
          faults \in FaultSetsOf({"policy_get", "policy_all"}) :
         response' = << Response("similar", policy_id, limit, faults,
                           GetSimilarPolicies(policy_id, limit, faults),
                           0, << >>, NoLists) >>
    /\ UNCHANGED <<breakerVars, storeVars, engineVars, serviceVars, jobVars>>

(* The caller takes the result.                                            *)
Deliver ==
    /\ response # << >>
    /\ response' = << >>
    /\ UNCHANGED <<breakerVars, storeVars, engineVars, serviceVars, jobVars>>

(* ---------------------------------------------------------------------- *)
(* Serving, with ai_engine trained at some earlier time                    *)
(* ---------------------------------------------------------------------- *)

(* ai_engine after train_all_models ran on the rows of a snapshot: the     *)
(* matrix and its id lists are the pivot of the snapshot, and each model   *)
(* is some fitted table, or what its failed training left: the unfitted    *)
(* SVD object, no regressor.  With no rows                                 *)
(* train_all_models returns before it builds anything.                     *)
EngineTrainedOn(snapshot) ==
    IF snapshot = {}
    THEN /\ user_item_matrix = << >>
         /\ user_ids = << >>
         /\ policy_ids = << >>
         /\ collaborative_model = << >>
         /\ hybrid_model = << >>
         /\ scaler = << >>
    ELSE /\ user_item_matrix = <<BuildUserItemMatrix(snapshot)>>
         /\ user_ids = <<MatrixUserIds(snapshot)>>
         /\ policy_ids = <<MatrixPolicyIds(snapshot)>>
         /\ collaborative_model \in
              {<<UnfittedModel>>} \cup
              (IF Len(MatrixUserIds(snapshot)) >= 2 /\ Len(MatrixPolicyIds(snapshot)) >= 2
               THEN {<<m>> : m \in [1..Len(MatrixPolicyIds(snapshot)) -> CollaborativeScores]}
               ELSE {})
         /\ hybrid_model \in {<< >>} \cup {<<m>> : m \in [PolicyIds -> HybridScores]}
         /\ scaler = (IF hybrid_model = << >> THEN << >> ELSE <<snapshot>>)

ServeInit ==
    /\ BreakerConstructed(DefaultFailureThreshold)
    /\ interactions \in {rows \in SUBSET EventUniverse : Cardinality(rows) <= MaxInteractions}
    /\ \E snapshot \in SUBSET interactions : EngineTrainedOn(snapshot)
    /\ policy_features_matrix = << >>
    /\ content_model = << >>
    /\ tfidf_vectorizer = << >>
    /\ policy_features = {}
    /\ ml_engine = << >>
    /\ response = << >>
    /\ ServiceConstructed

ServeNext ==
    \/ GetAIRecommendationsCall
    \/ GenerateRecommendationsCall
    \/ GetUserRecommendationsCall
    \/ GetFallbackRecommendationsCall
    \/ GetSimilarPoliciesCall
    \/ Deliver

SpecServe == ServeInit /\ [][ServeNext]_vars

(* ---------------------------------------------------------------------- *)
(* Page and endpoint requests while the shared breaker is in use           *)
(* ---------------------------------------------------------------------- *)

GuardInit ==
    /\ BreakerConstructed(DefaultFailureThreshold)
    /\ EngineConstructed
    /\ ServiceConstructed

GuardNext ==
    \/ CallBegin(1)
    \/ CallReturn(1)
    \/ GenerateRecommendationsCall
    \/ GetUserRecommendationsCall
    \/ Deliver

SpecGuard == GuardInit /\ [][GuardNext]_vars

(* ---------------------------------------------------------------------- *)
(* MLErrorHandler and MLHealthChecker                                      *)
(* ---------------------------------------------------------------------- *)

(* s[-n:]: the last n elements for a positive n; -0 is 0, so s[-0:] is the *)
(* whole list; a negative n drops the first -n elements.                   *)
LastSlice(s, n) ==
    IF n > 0
    THEN SubSeq(s, Len(s) - Min(n, Len(s)) + 1, Len(s))
    ELSE SubSeq(s, Min(0 - n, Len(s)) + 1, Len(s))

GetRecentErrors(limit) == LastSlice(error_log, limit)

(* ml_error_handler.log_error(e, context): an entry is identified by the   *)
(* ordinal of the error it records; lines 50-52 keep only the last 100.    *)
LogError ==
    /\ response = << >>
    /\ errors_logged < MaxErrors
    /\ error_log' = (IF Len(error_log) + 1 > ErrorLogCap
                     THEN LastSlice(Append(error_log, errors_logged + 1), ErrorLogCap)
                     ELSE Append(error_log, errors_logged + 1))
    /\ errors_logged' = errors_logged + 1
    /\ UNCHANGED <<last_check, health_status, response>>
    /\ UNCHANGED <<breakerVars, storeVars, engineVars, jobVars>>

ClearErrorLog ==
    /\ response = << >>
    /\ error_log' = << >>
    /\ UNCHANGED <<errors_logged, last_check, health_status, response>>
    /\ UNCHANGED <<breakerVars, storeVars, engineVars, jobVars>>

GetRecentErrorsCall ==
    /\ response = << >>
    /\ \E limit \in {-1, 0, 1, RecentErrorsAsked, ErrorLogCap + 50} :
         response' = << [op |-> "recent_errors", limit |-> limit,
                         recs |-> GetRecentErrors(limit)] >>
    /\ UNCHANGED <<breakerVars, storeVars, engineVars, serviceVars, jobVars>>

(* check_ml_system_health: the overall status after the engine check, the  *)
(* storage check and the recent-error check, in the order the code makes   *)
(* them.  The model-file and data-quality checks only add components and   *)
(* recommendations.                                                        *)
OverallStatus(engine_ok, database_ok, recent_errors) ==
    LET after_engine == IF engine_ok THEN "healthy" ELSE "degraded"
        after_database == IF database_ok THEN after_engine ELSE "unhealthy"
    IN  IF recent_errors # << >> /\ Len(recent_errors) > DegradedAbove
        THEN "degraded" ELSE after_database

CheckMLSystemHealth(engine_ok, database_ok) ==
    LET recent_errors == GetRecentErrors(RecentErrorsAsked)
    IN  [overall_status |-> OverallStatus(engine_ok, database_ok, recent_errors),
         ml_engine |-> IF engine_ok THEN "available" ELSE "unavailable",
         database |-> IF database_ok THEN "connected" ELSE "error",
         recent_errors |-> Len(recent_errors)]

CheckMLSystemHealthCall ==
    /\ response = << >>
    /\ \E engine_ok \in BOOLEAN, database_ok \in BOOLEAN :
         /\ health_status' = << CheckMLSystemHealth(engine_ok, database_ok) >>
         /\ response' = << [op |-> "health",
                            report |-> CheckMLSystemHealth(engine_ok, database_ok)] >>
    /\ last_check' = <<now>>
    /\ UNCHANGED <<error_log, errors_logged>>
    /\ UNCHANGED <<breakerVars, storeVars, engineVars, jobVars>>

(* ---------------------------------------------------------------------- *)
(* The error log and the health report                                     *)
(* ---------------------------------------------------------------------- *)

ServiceInit ==
    /\ BreakerConstructed(DefaultFailureThreshold)
    /\ EngineConstructed
    /\ ServiceConstructed

(* ---------------------------------------------------------------------- *)
(* The content model over a store with dismissals                          *)
(* ---------------------------------------------------------------------- *)

(* Events with values of both signs (tenths): views of 1.0, dismissals of  *)
(* -1.0 ('not_interested').                                                *)
SignedEventUniverse ==
    { [user_id |-> e[1], policy_id |-> e[2], interaction_type |-> e[3],
       interaction_value |-> e[4]] :
        e \in {<<1, 1, "view", 10>>, <<1, 1, "dismiss", -10>>,
               <<1, 2, "dismiss", -10>>, <<2, 2, "view", 10>>} }

(* self.get_content_based_recommendations(user_id, n), line 510.           *)
(* total_weight (lines 421-433) is the sum of the values of the user's     *)
(* rows whose policy has a stored feature vector.                          *)
GetContentBasedRecommendationsCall ==
    /\ response = << >>
    /\ \E user_id \in Users \cup {GhostUser}, n \in Limits,
          faults \in FaultSetsOf({"policy_all", "commit", "interaction_query"}) :
         /\ response' = << [op |-> "content", user |-> user_id, limit |-> n,
                            faults |-> faults, raised |-> FALSE,
                            history |-> Cardinality(RowsOf(user_id)),
                            total_weight |->
                                LET features == FeaturesAfterExtraction(ai_engine, faults)
                                    mine == {r \in RowsOf(user_id) :
                                                FeatureRows(features, r.policy_id) # {}}
                                IN  SumOver(mine, [r \in mine |-> r.interaction_value]),
                            recs |-> GetContentBasedRecommendations(ai_engine, user_id,
                                                                    n, faults)] >>
         /\ policy_features_matrix' = MatrixAfterExtraction(ai_engine, faults)
         /\ tfidf_vectorizer' = VectorizerAfterExtraction(ai_engine, faults)
         /\ policy_features' = FeaturesAfterExtraction(ai_engine, faults)
    /\ UNCHANGED <<interactions, user_item_matrix, user_ids, policy_ids,
                   collaborative_model, hybrid_model, content_model, scaler,
                   ml_engine>>
    /\ UNCHANGED <<breakerVars, serviceVars, jobVars>>

ContentInit ==
    /\ BreakerConstructed(DefaultFailureThreshold)
    /\ interactions \in {rows \in SUBSET SignedEventUniverse :
                            Cardinality(rows) <= MaxInteractions}
    /\ \E snapshot \in SUBSET interactions : EngineTrainedOn(snapshot)
    /\ policy_features_matrix = << >>
    /\ content_model = << >>
    /\ tfidf_vectorizer = << >>
    /\ policy_features = {}
    /\ ml_engine = << >>
    /\ response = << >>
    /\ ServiceConstructed

ContentNext ==
    \/ GetContentBasedRecommendationsCall
    \/ Deliver

SpecContent == ContentInit /\ [][ContentNext]_vars

(* ---------------------------------------------------------------------- *)
(* Training                                                                *)
(* ---------------------------------------------------------------------- *)

(* collect_training_data: the rows, or an empty frame when the query fails. *)
CollectTrainingData(faults) ==
    IF "interaction_query" \in faults THEN {} ELSE interactions

(* build_user_item_matrix, lines 95-97: the engine's matrix and id lists   *)
(* are assigned here, before any model is fitted.                          *)
MatrixBuilt(e, rows) ==
    [e EXCEPT !.user_item_matrix = <<BuildUserItemMatrix(rows)>>,
              !.user_ids = <<MatrixUserIds(rows)>>,
              !.policy_ids = <<MatrixPolicyIds(rows)>>]

(* n_components = min(50, min(user_item_matrix.shape) - 1)                 *)
ComponentCount(matrix) ==
    Min(MaxComponents, Min(Len(matrix), Len(matrix[1])) - 1)

(* train_collaborative_filtering on a non-empty matrix.  The model object  *)
(* is assigned (line 114) before it is fitted (line 117); saving catches   *)
(* its own failure.                                                        *)
TrainCollaborativeFiltering(e, faults, zero_fit, table) ==
    LET matrix == e.user_item_matrix[1]
        k == ComponentCount(matrix)
        constructed == [e EXCEPT !.collaborative_model = <<UnfittedModel>>]
    IN  IF "fit_collaborative" \in faults
        THEN [engine |-> constructed, ok |-> FALSE, n_components |-> k,
              error |-> "Exception"]
        ELSE IF k = 0 /\ zero_fit = "raises"
        THEN [engine |-> constructed, ok |-> FALSE, n_components |-> k,
              error |-> "ValueError"]
        ELSE [engine |-> [e EXCEPT !.collaborative_model =
                              << [j \in 1..Len(matrix[1]) |->
                                     IF k = 0 THEN 0 ELSE table[j]] >>],
              ok |-> TRUE, n_components |-> k, error |-> ""]

(* What the fits of a run may produce: a table per matrix column, a table  *)
(* per policy, and the outcome of a fit with no component when the matrix  *)
(* has a single row or column.                                             *)
CollaborativeTables(rows) == [1..Len(MatrixPolicyIds(rows)) -> CollaborativeScores]
HybridTables(rows) ==
    IF Cardinality(rows) < MinSplitSamples THEN {[p \in PolicyIds |-> 0]}
    ELSE [PolicyIds -> HybridScores]
(* TruncatedSVD(n_components=0).fit: the parameter check of the installed  *)
(* scikit-learn rejects it, or the randomized solver fits no component.    *)
ZeroFitsOf(rows) ==
    IF rows # {} /\ Min(Len(MatrixUserIds(rows)), Len(MatrixPolicyIds(rows))) = 1
    THEN {"raises", "fits"} ELSE {"raises"}

(* train_content_based_model, with extract_policy_features when the engine *)
(* holds no feature matrix.                                                *)
TrainContentBasedModel(e, faults) ==
    IF ExtractionRuns(e) /\ ~ExtractionSucceeds(faults)
    THEN [engine |-> [e EXCEPT !.tfidf_vectorizer = VectorizerAfterExtraction(e, faults)],
          ok |-> FALSE]
    ELSE [engine |-> [e EXCEPT !.tfidf_vectorizer = VectorizerAfterExtraction(e, faults),
                               !.policy_features_matrix = MatrixAfterExtraction(e, faults),
                               !.content_model = <<"tfidf_cosine">>],
          ok |-> TRUE]

(* train_hybrid_model: one sample per row whose user and policy exist; the *)
(* split needs two samples; the scaler is fitted (line 259) and the        *)
(* regressor assigned (line 263) before the regressor is fitted.           *)
TrainHybridModel(e, rows, faults, table) ==
    LET samples == {r \in rows : r.user_id \in Users /\ r.policy_id \in PolicyIds}
        scaled == [e EXCEPT !.scaler = <<samples>>]
    IN  IF "user_get" \in faults \/ samples = {} \/ Cardinality(samples) < MinSplitSamples
        THEN [engine |-> e, ok |-> FALSE]
        ELSE IF "fit_hybrid" \in faults
        THEN [engine |-> [scaled EXCEPT !.hybrid_model = <<UnfittedModel>>], ok |-> FALSE]
        ELSE [engine |-> [scaled EXCEPT !.hybrid_model = <<table>>], ok |-> TRUE]

(* The MLModel rows of a (model_name, model_type).                         *)
ModelRows(table, name, type) ==
    {r \in table : r.model_name = name /\ r.model_type = type}

(* The upsert of lines 336-361: the first matching row is rewritten, or a  *)
(* row is added; is_active keeps its column default.                       *)
UpsertModel(table, name, type) ==
    IF ModelRows(table, name, type) # {}
    THEN LET first == CHOOSE r \in ModelRows(table, name, type) :
                          \A q \in ModelRows(table, name, type) : r.id <= q.id
         IN  (table \ {first}) \cup {[first EXCEPT !.trained = TRUE]}
    ELSE table \cup {[id |-> Cardinality(table) + 1, model_name |-> name,
                      model_type |-> type, is_active |-> FALSE, trained |-> TRUE]}

(* _save_model_to_db with every call adding a row.                         *)
SaveModelToDb_Insert(table, name, type) ==
    table \cup {[id |-> Cardinality(table) + 1, model_name |-> name,
                 model_type |-> type, is_active |-> FALSE, trained |-> TRUE]}

(* _save_model_to_db: the table after the call.  joblib.dumps(model_obj),  *)
(* line 333, raises AttributeError: the joblib module has dump and load    *)
(* and no attribute dumps.  The except clause (line 364) logs it.          *)
SaveModelToDb(table, name, type) ==
    LET model_data == Raised
    IN  Catch(IF model_data.raised THEN Raised
              ELSE Return(UpsertModel(table, name, type)),
              table).value

(* The saves of the training methods that got as far as saving.            *)
SavedAfter(table, trained) ==
    LET c == IF trained.collaborative
             THEN SaveModelToDb(table, "collaborative_filtering", "collaborative")
             ELSE table
        t == IF trained.content
             THEN SaveModelToDb(c, "content_based_filtering", "content_based")
             ELSE c
    IN  IF trained.hybrid THEN SaveModelToDb(t, "hybrid_model", "hybrid") ELSE t

(* train_all_models.                                                       *)
TrainAllModels(e, faults, zero_fit, ctable, htable) ==
    LET rows == CollectTrainingData(faults)
    IN  IF rows = {}
        THEN [engine |-> e, features |-> policy_features, collected |-> FALSE,
              trained |-> [collaborative |-> FALSE, content |-> FALSE, hybrid |-> FALSE],
              n_components |-> << >>, shape |-> << >>, error |-> "", result |-> FALSE]
        ELSE LET built == MatrixBuilt(e, rows)
                 collaborative == TrainCollaborativeFiltering(built, faults, zero_fit, ctable)
                 content == TrainContentBasedModel(collaborative.engine, faults)
                 hybrid == TrainHybridModel(content.engine, rows, faults, htable)
             IN  [engine |-> hybrid.engine,
                  features |-> FeaturesAfterExtraction(collaborative.engine, faults),
                  collected |-> TRUE,
                  trained |-> [collaborative |-> collaborative.ok, content |-> content.ok,
                               hybrid |-> hybrid.ok],
                  n_components |-> <<collaborative.n_components>>,
                  shape |-> <<Len(built.user_item_matrix[1]),
                              Len(built.user_item_matrix[1][1])>>,
                  error |-> collaborative.error,
                  result |-> collaborative.ok \/ content.ok \/ hybrid.ok]

(* ai_engine.train_all_models(): the training route of ml_routes.          *)
TrainAllModelsCall ==
    /\ response = << >>
    /\ \E faults \in FaultSetsOf({"interaction_query", "fit_collaborative", "policy_all",
                                  "commit", "user_get", "fit_hybrid"}) :
       \E zero_fit \in ZeroFitsOf(CollectTrainingData(faults)),
          ctable \in CollaborativeTables(CollectTrainingData(faults)),
          htable \in HybridTables(CollectTrainingData(faults)) :
         \E run \in {TrainAllModels(ai_engine, faults, zero_fit, ctable, htable)} :
             /\ user_item_matrix' = run.engine.user_item_matrix
             /\ user_ids' = run.engine.user_ids
             /\ policy_ids' = run.engine.policy_ids
             /\ collaborative_model' = run.engine.collaborative_model
             /\ hybrid_model' = run.engine.hybrid_model
             /\ policy_features_matrix' = run.engine.policy_features_matrix
             /\ content_model' = run.engine.content_model
             /\ scaler' = run.engine.scaler
             /\ tfidf_vectorizer' = run.engine.tfidf_vectorizer
             /\ policy_features' = run.features
             /\ response' = << [op |-> "train", faults |-> faults, breaker |-> state,
                                collected |-> run.collected, trained |-> run.trained,
                                n_components |-> run.n_components, shape |-> run.shape,
                                error |-> run.error, raised |-> FALSE,
                                result |-> run.result] >>
             /\ ml_models' = SavedAfter(ml_models, run.trained)
    /\ UNCHANGED <<interactions, ml_engine, job, breakerVars, serviceVars>>

(* A new engine object over a store that already holds some events.       *)
TrainInit ==
    /\ BreakerConstructed(DefaultFailureThreshold)
    /\ interactions \in {rows \in SUBSET EventUniverse : Cardinality(rows) <= MaxInteractions}
    /\ EngineTrainedOn({})
    /\ policy_features_matrix = << >>
    /\ content_model = << >>
    /\ tfidf_vectorizer = << >>
    /\ policy_features = {}
    /\ ml_engine = << >>
    /\ response = << >>
    /\ ServiceConstructed

TrainNext ==
    \/ TrainAllModelsCall
    \/ Deliver

SpecTrain == TrainInit /\ [][TrainNext]_vars

(* Events of every type the weights name and of one they do not, in       *)
(* tenths: two users, two policies, most rows in the same cell.            *)
TypedEventUniverse ==
    { [user_id |-> e[1], policy_id |-> e[2], interaction_type |-> e[3],
       interaction_value |-> e[4]] :
        e \in {<<1, 1, "view", 10>>, <<1, 1, "click", 20>>, <<1, 1, "dismiss", -10>>,
               <<1, 1, "add_to_cart", 10>>, <<1, 1, "rate", 40>>,
               <<2, 1, "purchase", 10>>, <<2, 2, "share", 10>>} }

(* A new engine object over a store that holds events of every type.       *)
MatrixInit ==
    /\ BreakerConstructed(DefaultFailureThreshold)
    /\ interactions \in {rows \in SUBSET TypedEventUniverse :
                            Cardinality(rows) <= MaxInteractions}
    /\ EngineTrainedOn({})
    /\ policy_features_matrix = << >>
    /\ content_model = << >>
    /\ tfidf_vectorizer = << >>
    /\ policy_features = {}
    /\ ml_engine = << >>
    /\ response = << >>
    /\ ServiceConstructed

SpecMatrix == MatrixInit /\ [][TrainNext]_vars

(* ---------------------------------------------------------------------- *)
(* Two training requests at once, and the model table                      *)
(* ---------------------------------------------------------------------- *)

(* The rows the script adds: one per configuration without a row, numbered *)
(* after the rows already present, is_active at its column default.        *)
RECURSIVE RegisterConfigs(_, _)
RegisterConfigs(table, configs) ==
    IF configs = {} THEN table
    ELSE LET c == CHOOSE x \in configs : TRUE
             added == IF ModelRows(table, c.model_name, c.model_type) = {}
                      THEN table \cup {[id |-> Cardinality(table) + 1,
                                        model_name |-> c.model_name,
                                        model_type |-> c.model_type,
                                        is_active |-> FALSE, trained |-> FALSE]}
                      ELSE table
         IN  RegisterConfigs(added, configs \ {c})

(* initialize_ml_system: a run of the set-up script, one commit.           *)
InitializeMLSystem ==
    /\ ml_models' = RegisterConfigs(ml_models,
           {[model_name |-> "collaborative_filtering", model_type |-> "collaborative"],
            [model_name |-> "content_based_filtering", model_type |-> "content_based"],
            [model_name |-> "hybrid_model", model_type |-> "hybrid"]})
    /\ UNCHANGED <<job, breakerVars, storeVars, engineVars, response, serviceVars>>

(* The engine fields a training step assigns.                              *)
EngineBecomes(e) ==
    /\ user_item_matrix' = e.user_item_matrix
    /\ user_ids' = e.user_ids
    /\ policy_ids' = e.policy_ids
    /\ collaborative_model' = e.collaborative_model
    /\ hybrid_model' = e.hybrid_model
    /\ policy_features_matrix' = e.policy_features_matrix
    /\ content_model' = e.content_model
    /\ scaler' = e.scaler
    /\ tfidf_vectorizer' = e.tfidf_vectorizer

(* train_all_models lines 615-621 in request j: the rows are collected and *)
(* the matrix built on the shared engine; a run without rows returns.      *)
JobCollect(j) ==
    /\ job[j] = "idle"
    /\ \E faults \in FaultSetsOf({"interaction_query"}) :
         LET rows == CollectTrainingData(faults)
         IN  IF rows = {}
             THEN UNCHANGED <<engineVars, job>>
             ELSE /\ EngineBecomes(MatrixBuilt(ai_engine, rows))
                  /\ UNCHANGED ml_engine
                  /\ job' = [job EXCEPT ![j] = "collaborative"]
    /\ UNCHANGED <<ml_models, breakerVars, storeVars, response, serviceVars>>

(* train_all_models line 626 in request j.                                 *)
JobCollaborative(j) ==
    /\ job[j] = "collaborative"
    /\ \E faults \in FaultSetsOf({"fit_collaborative"}),
          zero_fit \in ZeroFitsOf(interactions),
          ctable \in CollaborativeTables(interactions) :
         \E run \in {TrainCollaborativeFiltering(ai_engine, faults, zero_fit, ctable)} :
             /\ EngineBecomes(run.engine)
             /\ ml_models' = IF run.ok
                              THEN SaveModelToDb(ml_models, "collaborative_filtering",
                                                 "collaborative")
                              ELSE ml_models
    /\ job' = [job EXCEPT ![j] = "content"]
    /\ UNCHANGED <<ml_engine, breakerVars, storeVars, response, serviceVars>>

(* train_all_models line 630 in request j.                                 *)
JobContent(j) ==
    /\ job[j] = "content"
    /\ \E faults \in FaultSetsOf({"policy_all", "commit"}) :
         \E run \in {TrainContentBasedModel(ai_engine, faults)} :
             /\ EngineBecomes(run.engine)
             /\ policy_features' = FeaturesAfterExtraction(ai_engine, faults)
             /\ ml_models' = IF run.ok
                              THEN SaveModelToDb(ml_models, "content_based_filtering",
                                                 "content_based")
                              ELSE ml_models
    /\ job' = [job EXCEPT ![j] = "hybrid"]
    /\ UNCHANGED <<interactions, ml_engine, breakerVars, response, serviceVars>>

(* train_all_models lines 634-639 in request j.                            *)
JobHybrid(j) ==
    /\ job[j] = "hybrid"
    /\ \E faults \in FaultSetsOf({"user_get", "fit_hybrid"}),
          htable \in HybridTables(interactions) :
         \E run \in {TrainHybridModel(ai_engine, interactions, faults, htable)} :
             /\ EngineBecomes(run.engine)
             /\ ml_models' = IF run.ok
                              THEN SaveModelToDb(ml_models, "hybrid_model", "hybrid")
                              ELSE ml_models
    /\ job' = [job EXCEPT ![j] = "idle"]
    /\ UNCHANGED <<ml_engine, breakerVars, storeVars, response, serviceVars>>

JobsNext ==
    \/ InitializeMLSystem
    \/ JobCollect(1)
    \/ JobCollect(2)
    \/ JobCollaborative(1)
    \/ JobCollaborative(2)
    \/ JobContent(1)
    \/ JobContent(2)
    \/ JobHybrid(1)
    \/ JobHybrid(2)

SpecJobs == TrainInit /\ [][JobsNext]_vars

(* ---------------------------------------------------------------------- *)
(* Predictions and training while the shared breaker is in use             *)
(* ---------------------------------------------------------------------- *)

(* ml_circuit_breaker.call is reached only through with_circuit_breaker    *)
(* (ml_error_handler.py 314-319), which decorates no function: the calls   *)
(* the breaker admits or refuses are other callers', and the engine's      *)
(* methods are called directly.                                            *)
WrapNext ==
    \/ CallBegin(1)
    \/ CallReturn(1)
    \/ GetAIRecommendationsCall
    \/ TrainAllModelsCall
    \/ Deliver

SpecWrap == GuardInit /\ [][WrapNext]_vars

(* ---------------------------------------------------------------------- *)
(* InteractionTracker                                                      *)
(* ---------------------------------------------------------------------- *)

(* The storage calls of a recording operation that may throw.              *)
TrackerFaults == {"commit", "rec_log_query"}

(* The write with the row of the same user and policy replaced.            *)
StoreInteraction_Upsert(rows, user_id, policy_id, type, value, faults) ==
    IF "commit" \in faults THEN Raised
    ELSE Return({r \in rows : r.user_id # user_id \/ r.policy_id # policy_id}
                \cup {[id |-> Cardinality(rows) + 1, user_id |-> user_id,
                        policy_id |-> policy_id, interaction_type |-> type,
                        interaction_value |-> value]})

(* db.session.add(UserInteraction(...)); db.session.commit(): the table    *)
(* after the write.  Values are in tenths.                                 *)
StoreInteraction(rows, user_id, policy_id, type, value, faults) ==
    IF "commit" \in faults THEN Raised
    ELSE Return(rows \cup {[id |-> Cardinality(rows) + 1, user_id |-> user_id,
                            policy_id |-> policy_id, interaction_type |-> type,
                            interaction_value |-> value]})

(* The log fields the two recommendation methods assign on the newest log  *)
(* row of the user and policy, when there is one and the commit succeeds.  *)
LogFieldsAssigned(method, found, faults) ==
    IF faults # {} \/ ~found THEN {}
    ELSE CASE method = "track_recommendation_click" -> {"was_clicked", "position_in_list"}
           [] method = "track_recommendation_purchase" -> {"was_purchased"}
           [] OTHER -> {}

(* track_page_view with the exception leaving the function.                *)
TrackPageView_NoCatch(rows, user_id, policy_id, time_spent, faults) ==
    StoreInteraction(rows, user_id, policy_id, "view", Min(time_spent, 3000), faults)

TrackPageView(rows, user_id, policy_id, time_spent, faults) ==
    Catch(StoreInteraction(rows, user_id, policy_id, "view", Min(time_spent, 3000), faults),
          rows)

ClickValue(click_type) ==
    CASE click_type = "general" -> 10
      [] click_type = "details" -> 20
      [] click_type = "compare" -> 15
      [] click_type = "quote" -> 30
      [] click_type = "purchase_button" -> 40
      [] OTHER -> 10

TrackClick(rows, user_id, policy_id, click_type, faults) ==
    Catch(StoreInteraction(rows, user_id, policy_id, "click", ClickValue(click_type), faults),
          rows)

(* purchase_amount in whole currency units; min(amount / 100, 10.0).       *)
TrackPurchase(rows, user_id, policy_id, purchase_amount, faults) ==
    Catch(StoreInteraction(rows, user_id, policy_id, "purchase",
                           Min(purchase_amount \div 10, 100), faults),
          rows)

TrackRating(rows, user_id, policy_id, rating, faults) ==
    Catch(StoreInteraction(rows, user_id, policy_id, "rate", rating, faults), rows)

DismissalValue(reason) ==
    CASE reason = "not_interested" -> -10
      [] reason = "too_expensive" -> -5
      [] reason = "wrong_type" -> -8
      [] reason = "bad_reviews" -> -15
      [] OTHER -> -10

TrackDismissal(rows, user_id, policy_id, reason, faults) ==
    Catch(StoreInteraction(rows, user_id, policy_id, "dismiss", DismissalValue(reason),
                           faults),
          rows)

(* track_recommendation_click: the log row lookup, the nested track_click  *)
(* (which catches its own failure), then a commit of its own.              *)
TrackRecommendationClick(rows, user_id, policy_id, faults) ==
    IF "rec_log_query" \in faults THEN Catch(Raised, rows)
    ELSE LET clicked == TrackClick(rows, user_id, policy_id, "recommendation", faults).value
         IN  Catch(IF "commit" \in faults THEN Raised ELSE Return(clicked), clicked)

(* track_recommendation_purchase: only the log row changes.                *)
TrackRecommendationPurchase(rows, user_id, policy_id, faults) ==
    Catch(IF faults # {} THEN Raised ELSE Return(rows), rows)

(* What a recording operation leaves for its caller.                       *)
TrackResponse(method, user_id, policy_id, faults, result, log_fields) ==
    << [op |-> "track", method |-> method, user |-> user_id, policy |-> policy_id,
        faults |-> faults, raised |-> result.raised, log_fields |-> log_fields,
        stored |-> IF result.raised THEN 0
                   ELSE Cardinality(result.value) - Cardinality(interactions)] >>

TrackCall(method, user_id, policy_id, faults, result, log_fields) ==
    /\ response = << >>
    /\ Cardinality(interactions) < MaxTracked
    /\ response' = TrackResponse(method, user_id, policy_id, faults, result, log_fields)
    /\ interactions' = IF result.raised THEN interactions ELSE result.value
    /\ UNCHANGED <<policy_features, breakerVars, engineVars, serviceVars, jobVars>>

TrackedPolicies == {1, 2}

TrackPageViewCall ==
    \E policy_id \in TrackedPolicies, time_spent \in {10, 4000},
       faults \in FaultSetsOf(TrackerFaults) :
        TrackCall("track_page_view", 1, policy_id, faults,
                  TrackPageView(interactions, 1, policy_id, time_spent, faults), {})

TrackClickCall ==
    \E policy_id \in TrackedPolicies, click_type \in {"general", "quote"},
       faults \in FaultSetsOf(TrackerFaults) :
        TrackCall("track_click", 1, policy_id, faults,
                  TrackClick(interactions, 1, policy_id, click_type, faults), {})

TrackPurchaseCall ==
    \E policy_id \in TrackedPolicies, purchase_amount \in {500, 5000},
       faults \in FaultSetsOf(TrackerFaults) :
        TrackCall("track_purchase", 1, policy_id, faults,
                  TrackPurchase(interactions, 1, policy_id, purchase_amount, faults), {})

TrackRatingCall ==
    \E policy_id \in TrackedPolicies, rating \in {10, 50},
       faults \in FaultSetsOf(TrackerFaults) :
        TrackCall("track_rating", 1, policy_id, faults,
                  TrackRating(interactions, 1, policy_id, rating, faults), {})

TrackDismissalCall ==
    \E policy_id \in TrackedPolicies, reason \in {"not_interested", "too_expensive"},
       faults \in FaultSetsOf(TrackerFaults) :
        TrackCall("track_dismissal", 1, policy_id, faults,
                  TrackDismissal(interactions, 1, policy_id, reason, faults), {})

TrackRecommendationClickCall ==
    \E policy_id \in TrackedPolicies, faults \in FaultSetsOf(TrackerFaults),
       found \in BOOLEAN :
        TrackCall("track_recommendation_click", 1, policy_id, faults,
                  TrackRecommendationClick(interactions, 1, policy_id, faults),
                  LogFieldsAssigned("track_recommendation_click", found, faults))

TrackRecommendationPurchaseCall ==
    \E policy_id \in TrackedPolicies, faults \in FaultSetsOf(TrackerFaults),
       found \in BOOLEAN :
        TrackCall("track_recommendation_purchase", 1, policy_id, faults,
                  TrackRecommendationPurchase(interactions, 1, policy_id, faults),
                  LogFieldsAssigned("track_recommendation_purchase", found, faults))

TrackNext ==
    \/ TrackPageViewCall
    \/ TrackClickCall
    \/ TrackPurchaseCall
    \/ TrackRatingCall
    \/ TrackDismissalCall
    \/ TrackRecommendationClickCall
    \/ TrackRecommendationPurchaseCall
    \/ Deliver

SpecTrack == ServiceInit /\ [][TrackNext]_vars

(* ---------------------------------------------------------------------- *)
(* _generate_ai_explanation                                                *)
(* ---------------------------------------------------------------------- *)

(* A string is a sequence of tokens: words, and "." for ". " or a final    *)
(* period.  ". ".join(clauses) + "."                                       *)
RECURSIVE JoinWithPeriods(_)
JoinWithPeriods(clauses) ==
    IF clauses = << >> THEN << >>
    ELSE IF Len(clauses) = 1 THEN Head(clauses)
    ELSE Head(clauses) \o <<".">> \o JoinWithPeriods(Tail(clauses))

(* The slice of the clause list with no upper bound.                       *)
ShownClauses_All(explanations) == explanations

(* explanations[:2]                                                        *)
ShownClauses(explanations) == Slice(explanations, ExplanationClauses)

(* The clauses collected by lines 565-585, in the order they are appended. *)
ExplanationList(user, policy, score) ==
    LET age == IF UserAge(user) # 0 THEN UserAge(user) ELSE DefaultAge
    IN  (IF AgeInRange(age, policy)
         THEN << <<"Perfect age match for", PolicyType(policy), "insurance">> >>
         ELSE << >>)
        \o (IF UserOccupation(user) # ""
            THEN << <<"Tailored for", UserOccupation(user), "professionals">> >>
            ELSE << >>)
        \o (IF UserLifestyle(user) # ""
            THEN << <<"Matches your", UserLifestyle(user), "lifestyle">> >>
            ELSE << >>)
        \o (IF score > HighConfidenceAbove
            THEN << <<"High AI confidence based on similar user patterns">> >>
            ELSE IF score > GoodMatchAbove
                 THEN << <<"Good match based on ML analysis">> >>
                 ELSE << <<"Potential match identified by AI">> >>)

(* _generate_ai_explanation(user_id, policy, score)                        *)
GenerateAIExplanation(user_id, policy, score, faults) ==
    IF "user_get" \in faults THEN <<"AI-recommended based on your profile">>
    ELSE IF user_id \notin Users THEN <<"Recommended based on AI analysis">>
    ELSE JoinWithPeriods(ShownClauses(ExplanationList(user_id, policy, score))) \o <<".">>

(* The combined score is given in hundredths.                              *)
GenerateAIExplanationCall ==
    /\ response = << >>
    /\ \E user_id \in Users \cup {GhostUser}, policy \in PolicyIds,
          score \in {0, 30, GoodMatchAbove, GoodMatchAbove + 1,
                     HighConfidenceAbove, HighConfidenceAbove + 1, 120},
          faults \in FaultSetsOf({"user_get"}) :
         response' = << [op |-> "explanation", user |-> user_id, policy |-> policy,
                         score |-> score, faults |-> faults,
                         text |-> GenerateAIExplanation(user_id, policy, score, faults)] >>
    /\ UNCHANGED <<breakerVars, storeVars, engineVars, serviceVars, jobVars>>

ExplanationNext ==
    \/ GenerateAIExplanationCall
    \/ Deliver

SpecExplanation == ServiceInit /\ [][ExplanationNext]_vars

ErrorLogNext ==
    \/ LogError
    \/ ClearErrorLog
    \/ GetRecentErrorsCall
    \/ Deliver

SpecErrorLog == ServiceInit /\ [][ErrorLogNext]_vars

HealthNext ==
    \/ LogError
    \/ CheckMLSystemHealthCall
    \/ Deliver

SpecHealth == ServiceInit /\ [][HealthNext]_vars

(* ---------------------------------------------------------------------- *)
(* Circuit breaker properties (SpecBreaker)                                *)
(* ---------------------------------------------------------------------- *)

(* The recovery timeout, measured as real elapsed time, has not run out.   *)
TimeoutNotElapsed ==
    /\ last_failure_time # << >>
    /\ now - last_failure_time[1] <= recovery_timeout

(* C4: a call made while the breaker is open and the recovery timeout has  *)
(* not elapsed is short-circuited: it ends with the "temporarily disabled" *)
(* MLError and the wrapped function is not entered.  In particular, with   *)
(* threshold 5, the call after 6 consecutive failing calls is.             *)
C4_ShortCircuit ==
    [][ ( /\ \/ state = "open"
             \/ failure_threshold = DefaultFailureThreshold /\ consecutive >= 6
          /\ TimeoutNotElapsed )
        => \A c \in Callers :
             pc[c] = "idle" =>
               /\ pc'[c] = "idle"
               /\ outcome'[c] # outcome[c] => outcome'[c] = "disabled" ]_vars

(* Six invocations have failed at threshold 5 and the seventh call was     *)
(* refused.                                                                *)
C4_Witness ==
    /\ failure_threshold = DefaultFailureThreshold
    /\ failure_count = 6
    /\ consecutive = 7
    /\ state = "open"
    /\ TimeoutNotElapsed
    /\ outcome[1] = "disabled"

(* C5: the breaker is closed exactly while fewer than failure_threshold    *)
(* calls have failed since the last successful one; in closed state the    *)
(* failure count is that number and a call passes through to the function. *)
C5_OpensAtThreshold ==
    /\ [](state = "closed" <=> consecutive < failure_threshold)
    /\ [](state = "closed" => failure_count = consecutive)
    /\ [][ \A c \in Callers :
             (state = "closed" /\ pc[c] = "idle" /\ outcome'[c] # outcome[c])
               => pc'[c] = "invoke" ]_vars

(* The fifth failure in a row has just opened a breaker of threshold 5.    *)
C5_Witness ==
    /\ failure_threshold = DefaultFailureThreshold
    /\ failure_count = failure_threshold
    /\ consecutive = failure_threshold
    /\ state = "open"
    /\ outcome[1] = "raised"

(* C6: the trial call of a half-open breaker decides the next state:       *)
(* success closes the breaker with failure count 0, failure opens it again *)
(* and stamps the time of the failure.                                     *)
C6_HalfOpenTrial ==
    [][ \A c \in Callers :
          (state = "half-open" /\ pc[c] = "invoke" /\ pc'[c] = "idle")
            => /\ outcome'[c] \in {"returned", "raised"}
               /\ outcome'[c] = "returned" =>
                    state' = "closed" /\ failure_count' = 0
               /\ outcome'[c] = "raised" =>
                    state' = "open" /\ last_failure_time' = <<now>> ]_vars

(* A trial call has failed: the count has passed the threshold, which only *)
(* a failure in half-open state does.                                      *)
C6_Witness ==
    /\ failure_count > failure_threshold
    /\ state = "open"
    /\ outcome[1] = "raised"
    /\ last_failure_time = <<now>>
    /\ now > recovery_timeout

(* C19: a call to an open breaker made more than recovery_timeout seconds  *)
(* after the last recorded failure is admitted: the breaker goes half-open *)
(* and the wrapped function is entered, however long ago the failure was.  *)
C19_AdmitsAfterTimeout ==
    [][ ( /\ state = "open"
          /\ last_failure_time # << >>
          /\ now - last_failure_time[1] > recovery_timeout )
        => \A c \in Callers :
             (pc[c] = "idle" /\ outcome'[c] # outcome[c])
               => pc'[c] = "invoke" /\ state' = "half-open" ]_vars

(* C21: with calls of concurrent requests interleaving, the breaker behaves *)
(* as if serialized: while a trial call of a half-open breaker is in the   *)
(* wrapped function no other call is let into it, and every failing call   *)
(* adds one to the failure count.                                          *)
C21_AsIfSerialized ==
    [][ \A c \in Callers :
          /\ (pc[c] = "idle" /\ pc'[c] = "invoke") => state # "half-open"
          /\ (pc[c] = "invoke" /\ outcome'[c] = "raised") =>
                 failure_count' = failure_count + 1 ]_vars

(* C30: with sequential calls and a threshold of at least 1, a closed      *)
(* breaker has fewer failures counted than its threshold, an open or       *)
(* half-open one has at least its threshold and a recorded failure time,   *)
(* and a call that succeeds on a closed breaker leaves the count at 0.     *)
C30_StateMatchesCount ==
    /\ [](state = "closed" => failure_count < failure_threshold)
    /\ [](state \in {"open", "half-open"} =>
              failure_count >= failure_threshold /\ last_failure_time # << >>)
    /\ [][ (state = "closed" /\ pc[1] = "invoke" /\ outcome'[1] = "returned")
              => failure_count' = 0 /\ state' = "closed" ]_vars

(* A call has succeeded on a closed breaker right after a failure was      *)
(* counted: no time has passed since the failure, so the breaker was not   *)
(* on trial.                                                               *)
C30_Witness ==
    /\ failure_threshold >= 2
    /\ last_failure_time = <<now>>
    /\ state = "closed"
    /\ failure_count = 0
    /\ outcome[1] = "returned"

(* ---------------------------------------------------------------------- *)
(* Request properties (SpecGuard, SpecServe)                               *)
(* ---------------------------------------------------------------------- *)

Responded(ops) == response # << >> /\ response[1].op \in ops

(* The list a request produced: for the endpoint, the list                 *)
(* generate_recommendations returned inside the handler.                   *)
Produced == IF response[1].op = "endpoint" THEN response[1].generated ELSE response[1].recs

(* C1: a page or endpoint request made while the circuit breaker is open   *)
(* does not raise and returns a list whose items are all tagged            *)
(* Fallback_System.                                                        *)
C1_OpenBreakerServesFallback ==
    (Responded({"generate", "endpoint"}) /\ response[1].breaker = "open") =>
        /\ ~response[1].raised
        /\ \A i \in 1..Len(Produced) : Produced[i].algorithm = "Fallback_System"

(* C2: an endpoint request by an authorized caller for an existing user    *)
(* is answered with success, never with an error result, whichever         *)
(* operation failed while it ran.                                          *)
C2_AlwaysARankedList ==
    (Responded({"endpoint"}) /\ response[1].code # 403 /\ response[1].user \in Users) =>
        response[1].code = 200

(* C3: get_ai_recommendations and get_similar_policies never raise to      *)
(* their caller, whichever operation throws while they run; the caller     *)
(* gets a list.                                                            *)
C3_NeverRaises ==
    Responded({"ai", "similar"}) =>
        /\ ~response[1].raised
        /\ response[1].recs \in Seq([policy : 1..(MaxPolicies + 1), score : Int,
                                     algorithm : STRING, confidence : Int])

(* A ranked policy could not be loaded: the exception is swallowed and the *)
(* caller gets the empty list.                                             *)
C3_Witness ==
    /\ Responded({"ai"})
    /\ "policy_get" \in response[1].faults
    /\ response[1].lists.combined # << >>
    /\ ~response[1].raised
    /\ response[1].recs = << >>

(* C7: every item served on the ML path, by the fallback system or by the  *)
(* emergency fallback carries a score between 0 and 100.                   *)
C7_ScoreWithinPercent ==
    Responded({"ai", "generate", "endpoint", "fallback"}) =>
        \A i \in 1..Len(Produced) : 0 <= Produced[i].score /\ Produced[i].score <= 100

(* A combined score above 1.0 is served as 100.                            *)
C7_Witness ==
    /\ Responded({"ai"})
    /\ \E i \in 1..Len(response[1].lists.combined), j \in 1..Len(response[1].recs) :
         /\ response[1].lists.combined[i].score > 100
         /\ response[1].recs[j].policy = response[1].lists.combined[i].policy_id
         /\ response[1].recs[j].score = 100

(* C8: a request with limit N gets at most min(N, 50) recommendations, so  *)
(* none when N is zero or negative.                                        *)
C8_AtMostLimit ==
    Responded({"ai", "generate", "endpoint"}) =>
        Len(Produced) <= Max(0, Min(response[1].limit, RecommendationCap))

(* A policy's score in a sub-model list, 0 when the list lacks the policy. *)
ScoreIn(recs, policy_id) ==
    IF \E i \in 1..Len(recs) : recs[i].policy_id = policy_id
    THEN recs[CHOOSE i \in 1..Len(recs) :
                  /\ recs[i].policy_id = policy_id
                  /\ \A k \in 1..(i - 1) : recs[k].policy_id # policy_id].score
    ELSE 0

(* C9: the combined score of every policy is 0.4 c + 0.3 t + 0.3 h, where  *)
(* c, t, h are its scores in the collaborative, content and hybrid lists   *)
(* and 0 stands for a list that lacks it.                                  *)
C9_WeightedBlend ==
    Responded({"ai"}) =>
        LET lists == response[1].lists
        IN  \A i \in 1..Len(lists.combined) :
                lists.combined[i].score =
                    CollaborativeWeight * ScoreIn(lists.collaborative, lists.combined[i].policy_id)
                    + ContentWeight * ScoreIn(lists.content, lists.combined[i].policy_id)
                    + HybridWeight * ScoreIn(lists.hybrid, lists.combined[i].policy_id)

(* C10: the returned list is in descending order of combined score, and    *)
(* items of equal combined score are in ascending order of policy id.      *)
C10_RankedWithTieBreak ==
    Responded({"ai"}) =>
        LET recs == response[1].recs
            combined == response[1].lists.combined
        IN  \A i, j \in 1..Len(recs) :
                i < j =>
                    /\ ScoreIn(combined, recs[i].policy) >= ScoreIn(combined, recs[j].policy)
                    /\ ScoreIn(combined, recs[i].policy) = ScoreIn(combined, recs[j].policy)
                         => recs[i].policy < recs[j].policy

(* ---------------------------------------------------------------------- *)
(* Error log and health properties (SpecErrorLog, SpecHealth)              *)
(* ---------------------------------------------------------------------- *)

(* The last n elements of a sequence, none for n = 0.                      *)
LastN(s, n) == [i \in 1..Min(n, Len(s)) |-> s[Len(s) - Min(n, Len(s)) + i]]

(* C17: a report made while the storage check fails has overall status     *)
(* 'unhealthy' whatever else it found; with storage reachable, more than 3 *)
(* recent errors make it 'degraded'.                                       *)
C17_StorageFailureIsUnhealthy ==
    Responded({"health"}) =>
        LET report == response[1].report
        IN  /\ report.database = "error" => report.overall_status = "unhealthy"
            /\ (report.database = "connected" /\ report.recent_errors > DegradedAbove)
                 => report.overall_status = "degraded"

(* C18: the error log holds at most 100 entries, they are the latest       *)
(* errors in the order they occurred, and get_recent_errors(n) returns the *)
(* last n of them for every n >= 0.                                        *)
C18_RollingErrorLog ==
    /\ Len(error_log) <= ErrorLogCap
    /\ \A i \in 1..Len(error_log) : error_log[i] = errors_logged - Len(error_log) + i
    /\ (Responded({"recent_errors"}) /\ response[1].limit >= 0)
         => response[1].recs = LastN(error_log, response[1].limit)

(* C12: a call of get_ai_recommendations writes exactly one log row tagged *)
(* 'AI_ML_Hybrid' for each item it returns, in order, and no other row,    *)
(* also when a log write fails.                                            *)
C12_OneLogRowPerItem ==
    Responded({"ai"}) =>
        LET recs == response[1].recs
            logged == response[1].logged
        IN  /\ Len(logged) = Len(recs)
            /\ \A i \in 1..Len(recs) :
                   /\ logged[i].policy_id = recs[i].policy
                   /\ logged[i].user_id = response[1].user
                   /\ logged[i].algorithm_used = "AI_ML_Hybrid"

(* ---------------------------------------------------------------------- *)
(* Breaker coverage (SpecWrap)                                             *)
(* ---------------------------------------------------------------------- *)

(* C20: the predictors of get_ai_recommendations and model training run    *)
(* behind the circuit breaker: they are not invoked while the breaker is   *)
(* open, and an invocation whose storage query failed has been counted as  *)
(* a failure.                                                              *)
C20_BehindTheBreaker ==
    Responded({"ai", "train"}) =>
        /\ response[1].breaker # "open"
        /\ "interaction_query" \in response[1].faults => failure_count >= 1

(* ---------------------------------------------------------------------- *)
(* Content model properties (SpecContent)                                  *)
(* ---------------------------------------------------------------------- *)

(* C16: the content model returns an empty list for every user whose total *)
(* interaction weight is <= 0: users with no interactions and users whose  *)
(* positive and negative interaction values cancel out.                    *)
C16_NoWeightNoContentRecs ==
    (Responded({"content"}) /\ response[1].total_weight <= 0) =>
        response[1].recs = << >>

(* ---------------------------------------------------------------------- *)
(* Training properties (SpecTrain)                                         *)
(* ---------------------------------------------------------------------- *)

ModelKinds == {"collaborative", "content", "hybrid"}

(* What the engine serves the predictions of a model kind from.            *)
ServingState(e, kind) ==
    CASE kind = "collaborative" ->
             <<e.collaborative_model, e.user_item_matrix, e.user_ids, e.policy_ids>>
      [] kind = "content" ->
             <<e.content_model, e.tfidf_vectorizer, e.policy_features_matrix>>
      [] kind = "hybrid" -> <<e.hybrid_model, e.scaler>>

(* C14: when a training run fails for a model kind, the model object,      *)
(* scaler, vectorizer, interaction matrix and id lists the engine serves   *)
(* that kind from are what they were before the run.                       *)
C14_FailedTrainingKeepsState ==
    [][(response = << >> /\ response' # << >> /\ response'[1].op = "train") =>
          \A kind \in ModelKinds :
              ~response'[1].trained[kind] =>
                  ServingState(ai_engine', kind) = ServingState(ai_engine, kind)]_vars

(* C15: collaborative training uses a latent dimension k with              *)
(* 1 <= k < min(rows, cols); a matrix with a single row or a single column *)
(* is refused with InsufficientDataError; a 2x2 matrix is fitted with      *)
(* k = 1.                                                                  *)
C15_LatentDimensionInRange ==
    (Responded({"train"}) /\ response[1].collected) =>
        LET k == response[1].n_components[1]
            rows == response[1].shape[1]
            cols == response[1].shape[2]
        IN  IF Min(rows, cols) < 2
            THEN /\ ~response[1].trained.collaborative
                 /\ response[1].error = "InsufficientDataError"
            ELSE /\ 1 <= k /\ k < Min(rows, cols)
                 /\ (rows = 2 /\ cols = 2 /\ "fit_collaborative" \notin response[1].faults)
                        => (response[1].trained.collaborative /\ k = 1)

(* ---------------------------------------------------------------------- *)
(* Tracker properties (SpecTrack)                                          *)
(* ---------------------------------------------------------------------- *)

(* C13: every recording operation of InteractionTracker returns normally   *)
(* to its caller, also when the storage write fails; a failed write stores *)
(* nothing.                                                                *)
C13_TrackerNeverRaises ==
    Responded({"track"}) =>
        /\ ~response[1].raised
        /\ "commit" \in response[1].faults => response[1].stored = 0

(* A page view whose commit failed, after an earlier event was stored.     *)
C13_Witness ==
    /\ Responded({"track"})
    /\ response[1].method = "track_page_view"
    /\ "commit" \in response[1].faults
    /\ ~response[1].raised
    /\ interactions # {}

(* ---------------------------------------------------------------------- *)
(* Explanation properties (SpecExplanation)                                *)
(* ---------------------------------------------------------------------- *)

(* The clauses of a string: its maximal runs of words between periods.     *)
ClauseCount(text) ==
    Cardinality({i \in 1..Len(text) : text[i] # "." /\ (i = 1 \/ text[i - 1] = ".")})

(* C11: every explanation string has at least one and at most two clauses, *)
(* and two clauses are joined by one period.                               *)
C11_AtMostTwoClauses ==
    Responded({"explanation"}) =>
        LET text == response[1].text
        IN  /\ 1 <= ClauseCount(text) /\ ClauseCount(text) <= ExplanationClauses
            /\ \A i \in 2..Len(text) : ~(text[i] = "." /\ text[i - 1] = ".")
            /\ text[1] # "."

(* Age, occupation, lifestyle and confidence each offered a clause and two *)
(* were kept.                                                              *)
C11_Witness ==
    /\ Responded({"explanation"})
    /\ response[1].faults = {}
    /\ response[1].user \in Users
    /\ Len(ExplanationList(response[1].user, response[1].policy, response[1].score)) = 4
    /\ ClauseCount(response[1].text) = 2

(* ---------------------------------------------------------------------- *)
(* The model table, the feature rows and the interaction rows              *)
(* ---------------------------------------------------------------------- *)

(* C22: in every reachable state, two training requests running at once    *)
(* included, the model table holds at most one row per (model_name,        *)
(* model_type) and at most one active row per model type.                  *)
C22_OneRowPerModel ==
    /\ \A r \in ml_models : \A q \in ml_models :
           (r.model_name = q.model_name /\ r.model_type = q.model_type) => r = q
    /\ \A r \in ml_models :
           Cardinality({q \in ml_models : q.model_type = r.model_type /\ q.is_active}) <= 1

(* Both requests are past their collaborative save, one of them past its   *)
(* content save, over a registered table.                                  *)
C22_Witness ==
    /\ job[1] = "hybrid"
    /\ job[2] = "content"
    /\ Cardinality(ml_models) = 3
    /\ collaborative_model # << >>
    /\ collaborative_model[1] # UnfittedModel
    /\ content_model = <<"tfidf_cosine">>

(* C27: after any sequence of extraction runs the feature table holds at   *)
(* most one row per (policy_id, algorithm), and a run over unchanged       *)
(* policy text leaves the vector stored for each policy as it was.         *)
C27_ExtractionIdempotent ==
    /\ [](\A r \in policy_features : \A q \in policy_features :
             (r.policy_id = q.policy_id /\ r.algorithm_used = q.algorithm_used)
                 => r = q)
    /\ [][ \A r \in policy_features : \E q \in policy_features' :
               /\ q.policy_id = r.policy_id
               /\ q.algorithm_used = r.algorithm_used
               /\ q.feature_vector = r.feature_vector ]_vars

(* Both engine objects have extracted the features, the second of them     *)
(* over the rows of the first.                                             *)
C27_Witness ==
    /\ policy_features_matrix # << >>
    /\ ml_engine # << >>
    /\ ml_engine[1].policy_features_matrix # << >>
    /\ Cardinality(policy_features) = Cardinality(PolicyIds)

(* C23: a call of get_ai_recommendations fits no model and no vectorizer,  *)
(* leaves every field of the engine object as it was, and writes no model  *)
(* row and no feature row.                                                 *)
C23_ServingNeverTrains ==
    [][ (response = << >> /\ response' # << >> /\ response'[1].op = "ai") =>
            /\ ai_engine' = ai_engine
            /\ policy_features' = policy_features
            /\ ml_models' = ml_models ]_vars

(* C24: a tracking operation adds at most one interaction row and leaves   *)
(* every interaction row that existed as it was; on the recommendation log *)
(* it assigns was_clicked, was_purchased and position_in_list only, and it *)
(* writes no other table.                                                  *)
C24_TrackingOnlyAppends ==
    [][ /\ interactions \subseteq interactions'
        /\ Cardinality(interactions' \ interactions) <= 1
        /\ (response' # << >> =>
               response'[1].log_fields \subseteq
                   {"was_clicked", "was_purchased", "position_in_list"})
        /\ policy_features' = policy_features
        /\ ml_models' = ml_models ]_vars

(* A click on a recommendation that stored its row next to an earlier row  *)
(* of the same user and policy, and marked the log row.                    *)
C24_Witness ==
    /\ response # << >>
    /\ response[1].op = "track"
    /\ response[1].method = "track_recommendation_click"
    /\ response[1].stored = 1
    /\ response[1].log_fields = {"was_clicked", "position_in_list"}
    /\ Cardinality({r \in interactions : r.policy_id = response[1].policy}) = 2

(* C29: a dismissal stored by track_dismissal never raises the affinity of *)
(* its user for its policy: what the row adds to the matrix cell, its      *)
(* value times the weight of its type, is at most zero.                    *)
C29_DismissalNeverRaisesAffinity ==
    \A r \in interactions :
        r.interaction_type = "dismiss" =>
            /\ WeightedScore(r) <= 0
            /\ MatrixCell({r}, r.user_id, r.policy_id) <= 0

(* The weight the specification gives each interaction type.               *)
C26_TypeWeight(type) ==
    IF type = "view" THEN 1
    ELSE IF type = "click" THEN 2
    ELSE IF type = "add_to_cart" THEN 3
    ELSE IF type = "rate" THEN 4
    ELSE IF type = "purchase" THEN 5
    ELSE IF type = "dismiss" THEN -1
    ELSE 1

(* C26: the weighted value of an interaction is its raw value times the    *)
(* weight of its type (view 1, click 2, add_to_cart 3, rate 4, purchase 5, *)
(* dismiss -1, any other type 1), and each cell of the user x policy       *)
(* matrix is the sum of the weighted values of that user's interactions    *)
(* with that policy.                                                       *)
C26_CellIsWeightedSum ==
    user_item_matrix # << >> =>
        \A i \in 1..Len(user_ids[1]) : \A j \in 1..Len(policy_ids[1]) :
            LET cell == {r \in interactions : /\ r.user_id = user_ids[1][i]
                                              /\ r.policy_id = policy_ids[1][j]}
            IN  user_item_matrix[1][i][j] =
                    SumOver(cell, [r \in cell |->
                                r.interaction_value * C26_TypeWeight(r.interaction_type)])

(* A matrix was built over a cell that holds a dismissal and another row.  *)
C26_Witness ==
    /\ user_item_matrix # << >>
    /\ \E r \in interactions : \E q \in interactions :
           /\ r # q
           /\ r.user_id = q.user_id
           /\ r.policy_id = q.policy_id
           /\ r.interaction_type = "dismiss"

(* C25: no list of a sub-model holds a policy its user already interacted  *)
(* with: the collaborative list holds no policy whose cell in the user's   *)
(* matrix row is positive, and the content and hybrid lists hold no policy *)
(* that has an interaction event of the user.                              *)
C25_NoInteractedPolicy ==
    (response # << >> /\ response[1].op = "ai") =>
        LET lists == response[1].lists
            user == response[1].user
            seen == {r.policy_id : r \in {x \in interactions : x.user_id = user}}
        IN  /\ \A k \in 1..Len(lists.collaborative) :
                   \A i \in 1..Len(user_ids[1]) : \A j \in 1..Len(policy_ids[1]) :
                       (/\ user_ids[1][i] = user
                        /\ policy_ids[1][j] = lists.collaborative[k].policy_id)
                           => user_item_matrix[1][i][j] <= 0
            /\ \A k \in 1..Len(lists.content) : lists.content[k].policy_id \notin seen
            /\ \A k \in 1..Len(lists.hybrid) : lists.hybrid[k].policy_id \notin seen

(* A user with a stored interaction got a policy from each sub-model.      *)
C25_Witness ==
    /\ response # << >>
    /\ response[1].op = "ai"
    /\ \E r \in interactions : r.user_id = response[1].user
    /\ response[1].lists.collaborative # << >>
    /\ response[1].lists.content # << >>
    /\ response[1].lists.hybrid # << >>

(* C28: in the list of get_content_based_recommendations the policy id     *)
(* paired with a similarity is the id of the policy whose text vector gave *)
(* that similarity, whatever training and prediction calls came before.    *)
C28_IdMatchesVector ==
    (response # << >> /\ response[1].op = "content") =>
        \A k \in 1..Len(response[1].recs) :
            response[1].recs[k].score =
                Cosine(UserProfile(response[1].user, policy_features),
                       FeatureVector(response[1].recs[k].policy_id))

====
